---- MODULE Spec2Model ----
(***************************************************************************)
(* Model of the shard launcher's content subsystem: the two registry       *)
(* clients' "latest version" resolution (modrinth.rs, curseforge.rs), the  *)
(* template installer and the profile-mutating commands (commands.rs),     *)
(* and of the launcher's services beside it: the CurseForge hashes, the    *)
(* Java requirement (java.rs), the templates directory (template.rs), the  *)
(* accounts (accounts.rs), the launch events and the log watcher (logs.rs).*)
(***************************************************************************)
EXTENDS Integers, Sequences, FiniteSets, TLC

VARIABLES
    registry,   \* what the upstream registry holds for the request (a project's versions
                \* in upstream order; for the single-call clients, its HTTP answer)
    response,   \* the last request and what the client returned for it
    disk,       \* the persisted profiles: profile id -> Option<Profile>
    tpInput,    \* create_profile_from_template_cmd: its CreateProfileInput
    tpTemplate, \* what load_template yields for input.template (None: no such file)
    tpPc,       \* where the command is: "start", the loop it is in, "save", "done"
    tpIdx,      \* the index of the next entry of that loop
    tpProfile,  \* the command's in-memory profile
    tpCalls,    \* the ContentStore calls the command has made, in order
    tpResult,   \* what the command returned
    ccInput,    \* concurrent commands: the command each invocation runs, with its input
    ccPc,       \* where each invocation is: "ready", "loaded", "done"
    ccLocal,    \* the profile each invocation loaded (its profile_data)
    ccResult,   \* what each invocation returned
    ccEffect,   \* the mutation each invocation saved (none if it saved nothing)
    ccInitial,  \* the persisted profiles before the invocations started
    rcProfile,  \* the reconciler's in-memory profile
    rcCall,     \* the last reconciler call: its arguments, the value before it, its result
    store,      \* the content store: the hashes that have an entry on disk
    stWrites,   \* the hashes written to the store's directory, one per write, in order
    stCalls,    \* the download_to_store calls made, in order, with their results
    hashQuery,  \* get_sha1_hash: the file asked about and what was returned
    jvQuery,    \* java.rs: the Minecraft version and the Java major asked about
    jvAnswer,   \* what get_required_java_version and is_java_compatible returned
    templatesDir, \* the templates directory: template id -> Option<Template>
    tdCall,     \* the last call on the templates directory, with the directory before it
    accounts,   \* the Accounts value: active and the account list
    acCall,     \* the last call on it: its arguments, the value before it, its result
    lnPc,       \* launch_profile_cmd: where each call's blocking task is
    lnFacts,    \* what happened in each call: preparation and the game's exit
    launchStatus, \* the "launch-status" events emitted so far, in order
    logFile,    \* the log file: its bytes (and which file it is, to tell a rotation)
    logHistory, \* every byte written to the current file, and whether it was replaced
    watcher,    \* the LogWatcher: position and line_number
    delivered,  \* the entries the read_new calls returned so far, in order
    lastRead,   \* the last read_new call: the file it saw, the watcher before, its result
    wtPc,       \* watch_log: where the spawned thread is
    wtStop,     \* the stop channel: signals queued, whether the sender was dropped
    wtEntries   \* the entries channel: batches sent, whether the receiver was dropped

resolveVars == <<registry, response>>
templateVars == <<tpInput, tpTemplate, tpPc, tpIdx, tpProfile, tpCalls, tpResult>>

commandVars == <<ccInput, ccPc, ccLocal, ccResult, ccEffect, ccInitial>>

reconcilerVars == <<rcProfile, rcCall>>

storeVars == <<store, stWrites, stCalls>>

javaVars == <<hashQuery, jvQuery, jvAnswer>>

builtinVars == <<templatesDir, tdCall>>

accountVars == <<accounts, acCall>>

launchVars == <<lnPc, lnFacts, launchStatus>>

logVars == <<logFile, logHistory, watcher, delivered, lastRead>>

watchVars == <<wtPc, wtStop, wtEntries>>

\* The variables of the launcher's services (hashes and Java, templates directory,
\* accounts, launch, logs), which no profile command touches
serviceVars == <<javaVars, builtinVars, accountVars, launchVars, logVars, watchVars>>

vars == <<registry, response, disk, tpInput, tpTemplate, tpPc, tpIdx, tpProfile,
          tpCalls, tpResult, ccInput, ccPc, ccLocal, ccResult, ccEffect, ccInitial,
          rcProfile, rcCall, store, stWrites, stCalls, hashQuery, jvQuery, jvAnswer,
          templatesDir, tdCall, accounts, acCall, lnPc, lnFacts, launchStatus,
          logFile, logHistory, watcher, delivered, lastRead, wtPc, wtStop, wtEntries>>

----------------------------------------------------------------------------
(* Option and Result values *)

None == [some |-> FALSE]
Some(x) == [some |-> TRUE, val |-> x]
Ok(x) == [ok |-> TRUE, val |-> x]
Err(e) == [ok |-> FALSE, err |-> e]

----------------------------------------------------------------------------
(* Bounds of the resolver model *)

MaxVersions == 2

Channels == {"release", "beta", "alpha"}
GameVersions == {"1.21.3", "1.21.4"}
LoaderNames == {"fabric", "forge"}

\* What one upstream version carries besides its id.
UpstreamKinds ==
    [channel : Channels,
     game_versions : {{"1.21.4"}, {"1.21.3"}, {"1.21.3", "1.21.4"}},
     loaders : {{"fabric"}, {"fabric", "forge"}}]

----------------------------------------------------------------------------
(* The registries' server side: both filter on the query parameters the     *)
(* clients send.                                                           *)

ServerMatches(e, game_version, loader) ==
    /\ (game_version.some => game_version.val \in e.game_versions)
    /\ (loader.some => loader.val \in e.loaders)

\* modrinth.rs Version, as the /project/{id}/version endpoint lists it
Version(e) ==
    [id |-> e.id, version_type |-> e.channel,
     game_versions |-> e.game_versions, loaders |-> e.loaders]

\* curseforge.rs File: release_type 1=release, 2=beta, 3=alpha
File(e) ==
    [id |-> e.id,
     release_type |-> CASE e.channel = "release" -> 1
                        [] e.channel = "beta" -> 2
                        [] OTHER -> 3,
     game_versions |-> e.game_versions]

\* ModrinthClient::get_compatible_versions: the filtering is the server's
get_compatible_versions(reg, game_version, loader) ==
    LET matching == SelectSeq(reg, LAMBDA e : ServerMatches(e, game_version, loader))
    IN  [i \in 1..Len(matching) |-> Version(matching[i])]

\* ModrinthClient::get_latest_version, on the list the registry returned
get_latest_version_mut_no_channel(versions) ==
    IF versions = <<>> THEN Err("no compatible version found") ELSE Ok(Head(versions))

get_latest_version_mut_last(versions) ==
    LET release_versions == SelectSeq(versions, LAMBDA v : v.version_type = "release")
        chosen == IF release_versions = <<>> THEN versions ELSE release_versions
    IN  IF chosen = <<>> THEN Err("no compatible version found")
        ELSE Ok(chosen[Len(chosen)])

get_latest_version(versions) ==
    LET release_versions == SelectSeq(versions, LAMBDA v : v.version_type = "release")
        chosen == IF release_versions = <<>> THEN versions ELSE release_versions
    IN  IF chosen = <<>> THEN Err("no compatible version found")
        ELSE Ok(Head(chosen))

\* CurseForgeClient::get_mod_files: the server filters, then pages
get_mod_files(reg, game_version, mod_loader, page_size, index) ==
    LET matching == SelectSeq(reg, LAMBDA e : ServerMatches(e, game_version, mod_loader))
        all == [i \in 1..Len(matching) |-> File(matching[i])]
        last == IF index + page_size < Len(all) THEN index + page_size ELSE Len(all)
    IN  SubSeq(all, index + 1, last)

\* CurseForgeClient::get_latest_file, on the page the registry returned
get_latest_file_mut_default(files) ==
    IF files = <<>> THEN Ok([id |-> 0, release_type |-> 1, game_versions |-> {}])
    ELSE Ok(Head(files))

get_latest_file(files) ==
    IF files = <<>> THEN Err("no compatible files found") ELSE Ok(Head(files))

----------------------------------------------------------------------------
(* Resolver specification: a registry with a bounded list of versions, and  *)
(* requests for the latest version through either client.                  *)

RequestGameVersions == {None} \cup {Some(g) : g \in GameVersions}
RequestLoaders == {None} \cup {Some(l) : l \in LoaderNames}

IdleResponse ==
    [client |-> "none", game_version |-> None, loader |-> None,
     net |-> "ok", result |-> Err("idle")]

ResolveRegistryInit ==
    /\ \E n \in 0..MaxVersions :
         \E f \in [1..n -> UpstreamKinds] :
            registry = [i \in 1..n |->
                          [id |-> i, channel |-> f[i].channel,
                           game_versions |-> f[i].game_versions,
                           loaders |-> f[i].loaders]]
    /\ response = IdleResponse

\* ModrinthClient::get_latest_version(id_or_slug, game_version, loader)
ModrinthGetLatest ==
    \E gv \in RequestGameVersions, l \in RequestLoaders, net \in {"ok", "fail"} :
        /\ response' =
             [client |-> "modrinth", game_version |-> gv, loader |-> l, net |-> net,
              result |-> IF net = "fail" THEN Err("Modrinth request failed")
                         ELSE get_latest_version(get_compatible_versions(registry, gv, l))]
        /\ UNCHANGED <<registry, disk, templateVars, commandVars, reconcilerVars, storeVars, serviceVars>>

\* CurseForgeClient::get_latest_file(mod_id, game_version, mod_loader)
CurseForgeGetLatest ==
    \E gv \in RequestGameVersions, l \in RequestLoaders, net \in {"ok", "fail"} :
        /\ response' =
             [client |-> "curseforge", game_version |-> gv, loader |-> l, net |-> net,
              result |-> IF net = "fail" THEN Err("CurseForge request failed")
                         ELSE get_latest_file(get_mod_files(registry, gv, l, 1, 0))]
        /\ UNCHANGED <<registry, disk, templateVars, commandVars, reconcilerVars, storeVars, serviceVars>>

ResolveNext == ModrinthGetLatest \/ CurseForgeGetLatest

----------------------------------------------------------------------------
(* Profiles and their content lists (profile.rs is not among the sources:  *)
(* the reconciler is modelled from its specification, section 4.4)         *)

MaxEntries == 2

ProfileIds == {"p"}
Hashes == {"h1", "h2"}

\* str::to_lowercase, on the names the model uses
Lower(s) ==
    CASE s = "Sodium" -> "sodium"
      [] s = "SODIUM" -> "sodium"
      [] s = "Iris" -> "iris"
      [] s = "IRIS" -> "iris"
      [] s = "Lithium" -> "lithium"
      [] s = "Modrinth" -> "modrinth"
      [] s = "CurseForge" -> "curseforge"
      [] s = "Shader" -> "shader"
      [] s = "Alex" -> "alex"
      [] s = "ALEX" -> "alex"
      [] s = "U1" -> "u1"
      [] OTHER -> s

\* The identity of a ContentRef: its hash when present, else its name ignoring case
Identity(r) ==
    IF r.hash.some THEN <<"hash", r.hash.val>> ELSE <<"name", Lower(r.name)>>

Min(S) == CHOOSE x \in S : \A y \in S : x <= y

upsert(list, ref) ==
    LET hits == {i \in DOMAIN list : Identity(list[i]) = Identity(ref)}
    IN  IF hits = {} THEN Append(list, ref)
        ELSE [list EXCEPT ![Min(hits)] = ref]

\* Removal by identity: the target names a hash or, ignoring case, a name
TargetMatches(r, target) ==
    \/ r.hash.some /\ r.hash.val = target
    \/ Lower(r.name) = Lower(target)

remove(list, target) == SelectSeq(list, LAMBDA r : ~TargetMatches(r, target))

upsert_mod(profile, ref) == [profile EXCEPT !.mods = upsert(@, ref)]
upsert_resourcepack(profile, ref) == [profile EXCEPT !.resourcepacks = upsert(@, ref)]
upsert_shaderpack(profile, ref) == [profile EXCEPT !.shaderpacks = upsert(@, ref)]

upsert_into_mut_wrong_arm(profile, target, ref) ==
    CASE target = "mods" -> upsert_resourcepack(profile, ref)
      [] target = "resourcepacks" -> upsert_resourcepack(profile, ref)
      [] target = "shaderpacks" -> upsert_shaderpack(profile, ref)

upsert_into(profile, target, ref) ==
    CASE target = "mods" -> upsert_mod(profile, ref)
      [] target = "resourcepacks" -> upsert_resourcepack(profile, ref)
      [] target = "shaderpacks" -> upsert_shaderpack(profile, ref)

\* profile::create_profile: refuses an id that already has a persisted profile
create_profile(d, id, mc_version, loader, runtime) ==
    IF d[id].some THEN Err("profile already exists")
    ELSE Ok([id |-> id, mc_version |-> mc_version, loader |-> loader,
             runtime |-> runtime, mods |-> <<>>, resourcepacks |-> <<>>,
             shaderpacks |-> <<>>])

NoProfile == [id |-> "", mc_version |-> "", loader |-> None,
              runtime |-> [java |-> None, memory |-> None, args |-> <<>>],
              mods |-> <<>>, resourcepacks |-> <<>>, shaderpacks |-> <<>>]

----------------------------------------------------------------------------
(* create_profile_from_template_cmd (commands.rs)                          *)

\* str::trim().is_empty() and str::split_whitespace() on the argument strings
\* the model uses
ArgStrings == {"", "  ", " -Xa  -Xb "}
IsBlank(a) == a \in {"", "  "}
SplitWhitespace(a) == IF a = " -Xa  -Xb " THEN <<"-Xa", "-Xb">> ELSE <<>>

\* Option::or
OptionOr(a, b) == IF a.some THEN a ELSE b

\* The loops of the command, in source order
ListOrder == <<"mods", "shaderpacks", "resourcepacks">>

\* The reference of entry i of a template list to its project (or URL)
ProjectOf(list, i) == list \o ToString(i)

\* The next loop position at or after entry i of loop k: an exhausted loop falls
\* through to the next one, and the last one to save_profile.
RECURSIVE PosFrom(_, _, _)
PosFrom(template, k, i) ==
    IF k > Len(ListOrder) THEN [pc |-> "save", idx |-> 0]
    ELSE IF i <= Len(template[ListOrder[k]]) THEN [pc |-> ListOrder[k], idx |-> i]
    ELSE PosFrom(template, k + 1, 1)

ListIndex(list) == CHOOSE k \in DOMAIN ListOrder : ListOrder[k] = list

\* Lines 538-541 (and their copies): an entry is resolved only if it is required
\* and its source is a Modrinth project
Attempted_mut_ignores_required(entry) == entry.source.type = "modrinth"

Attempted(entry) == entry.required /\ entry.source.type = "modrinth"

\* What the registry and the network do for one attempted entry
Outcomes ==
    {[kind |-> "resolve_failed"], [kind |-> "download_failed"]}
        \cup {[kind |-> "ok", hash |-> h] : h \in Hashes}

\* Lines 515-528: the loader and runtime of a profile created from a template
TemplateLoader(template) == template.loader

TemplateRuntime(input, template) ==
    [java |-> OptionOr(input.java, template.runtime.java),
     memory |-> OptionOr(input.memory, template.runtime.memory),
     args |-> IF input.args.some /\ ~IsBlank(input.args.val)
              THEN SplitWhitespace(input.args.val)
              ELSE template.runtime.args]

\* Lines 585-602: the loader and runtime of a profile created without a template
\* (parse_loader may reject the "type@version" string)
PlainLoaders(input) ==
    IF input.loader_type.some /\ input.loader_version.some
    THEN {Ok(Some([loader_type |-> input.loader_type.val,
                   version |-> input.loader_version.val])),
          Err("invalid loader")}
    ELSE IF ~input.loader_type.some /\ ~input.loader_version.some
    THEN {Ok(None)}
    ELSE {Err("loader type and version must both be provided")}

FilterNonBlank(o) == IF o.some /\ ~IsBlank(o.val) THEN o ELSE None

PlainRuntime(input) ==
    [java |-> FilterNonBlank(input.java),
     memory |-> FilterNonBlank(input.memory),
     args |-> IF input.args.some THEN SplitWhitespace(input.args.val) ELSE <<>>]

TemplateReturn(result) ==
    /\ tpResult' = result
    /\ tpPc' = "done"
    /\ tpIdx' = 0

\* Lines 508-535 (template given) and 583-606 (no template)
TemplateStart ==
    /\ tpPc = "start"
    /\ UNCHANGED <<registry, response, tpInput, tpTemplate, tpCalls, commandVars, reconcilerVars, storeVars, serviceVars>>
    /\ IF tpInput.template.some
       THEN IF ~tpTemplate.some
            THEN /\ TemplateReturn(Err("failed to read template file"))
                 /\ UNCHANGED <<disk, tpProfile>>
            ELSE LET template == tpTemplate.val
                     created == create_profile(disk, tpInput.id, template.mc_version,
                                               TemplateLoader(template),
                                               TemplateRuntime(tpInput, template))
                     pos == PosFrom(template, 1, 1)
                 IN  IF ~created.ok
                     THEN /\ TemplateReturn(created)
                          /\ UNCHANGED <<disk, tpProfile>>
                     ELSE /\ disk' = [disk EXCEPT ![tpInput.id] = Some(created.val)]
                          /\ tpProfile' = created.val
                          /\ tpPc' = pos.pc
                          /\ tpIdx' = pos.idx
                          /\ UNCHANGED tpResult
       ELSE \E loader \in PlainLoaders(tpInput) :
               IF ~loader.ok
               THEN /\ TemplateReturn(loader)
                    /\ UNCHANGED <<disk, tpProfile>>
               ELSE LET created == create_profile(disk, tpInput.id, tpInput.mc_version,
                                                  loader.val, PlainRuntime(tpInput))
                    IN  /\ TemplateReturn(created)
                        /\ disk' = IF created.ok
                                   THEN [disk EXCEPT ![tpInput.id] = Some(created.val)]
                                   ELSE disk
                        /\ tpProfile' = IF created.ok THEN created.val ELSE tpProfile

\* One iteration of one of the three loops: the entries of `list`, resolved with
\* the given game version and loader and upserted into the `target` list.
InstallStep(list, target, game_version, loader) ==
    /\ UNCHANGED <<registry, response, disk, tpInput, tpTemplate, tpResult, commandVars, reconcilerVars, storeVars, serviceVars>>
    /\ LET entry == tpTemplate.val[list][tpIdx]
           pos == PosFrom(tpTemplate.val, ListIndex(list), tpIdx + 1)
           call(op, ok, hash) ==
               [list |-> list, idx |-> tpIdx, op |-> op,
                project |-> entry.source.project, game_version |-> game_version,
                loader |-> loader, ok |-> ok, hash |-> hash]
           resolve(ok) == call("get_latest_version", ok, None)
           download(ok, hash) == call("download_to_store", ok, hash)
       IN  /\ tpPc' = pos.pc
           /\ tpIdx' = pos.idx
           /\ IF ~Attempted(entry)
              THEN UNCHANGED <<tpProfile, tpCalls>>
              ELSE \E out \in Outcomes :
                      IF out.kind = "resolve_failed"
                      THEN /\ tpCalls' = Append(tpCalls, resolve(FALSE))
                           /\ UNCHANGED tpProfile
                      ELSE IF out.kind = "download_failed"
                      THEN /\ tpCalls' = tpCalls \o <<resolve(TRUE), download(FALSE, None)>>
                           /\ UNCHANGED tpProfile
                      ELSE /\ tpCalls' = tpCalls \o <<resolve(TRUE), download(TRUE, Some(out.hash))>>
                           /\ tpProfile' =
                                upsert_into(tpProfile, target,
                                            [name |-> entry.source.project,
                                             hash |-> Some(out.hash),
                                             source |-> entry.source.project])

TemplateLoaderType ==
    IF tpProfile.loader.some THEN Some(tpProfile.loader.val.loader_type) ELSE None

\* Lines 537-553
TemplateMod ==
    /\ tpPc = "mods"
    /\ InstallStep("mods", "mods", Some(tpTemplate.val.mc_version), TemplateLoaderType)

\* Lines 555-566
TemplateShader_mut_wrong_list ==
    /\ tpPc = "shaderpacks"
    /\ InstallStep("shaderpacks", "mods", None, None)

TemplateShader ==
    /\ tpPc = "shaderpacks"
    /\ InstallStep("shaderpacks", "shaderpacks", None, None)

\* Lines 568-579
TemplatePack ==
    /\ tpPc = "resourcepacks"
    /\ InstallStep("resourcepacks", "resourcepacks", None, None)

\* Lines 581-582: save_profile, then Ok(profile)
TemplateFinish ==
    /\ tpPc = "save"
    /\ UNCHANGED <<registry, response, tpInput, tpTemplate, tpProfile, tpCalls, commandVars, reconcilerVars, storeVars, serviceVars>>
    /\ \E io \in {"ok", "fail"} :
          IF io = "ok"
          THEN /\ disk' = [disk EXCEPT ![tpProfile.id] = Some(tpProfile)]
               /\ TemplateReturn(Ok(tpProfile))
          ELSE /\ UNCHANGED disk
               /\ TemplateReturn(Err("failed to write profile"))

TemplateNext ==
    TemplateStart \/ TemplateMod \/ TemplateShader \/ TemplatePack \/ TemplateFinish

----------------------------------------------------------------------------
(* The commands that mutate a persisted profile (commands.rs): add_content, *)
(* remove_content and store_install_cmd. Each loads the profile, changes    *)
(* its copy and saves it; nothing in the command layer holds a lock from    *)
(* the load to the save.                                                    *)

Procs == {1, 2}

\* load_profile
load_profile(d, id) ==
    IF id \in DOMAIN d /\ d[id].some THEN Ok(d[id].val) ELSE Err("profile not found")

\* ContentKind / ContentType to the profile list it goes to (lines 189-193, 712-716)
KindList_mut_swapped(kind) ==
    CASE kind = "Mod" -> "mods"
      [] kind = "ModPack" -> "mods"
      [] kind = "ResourcePack" -> "shaderpacks"
      [] kind = "ShaderPack" -> "resourcepacks"

KindList(kind) ==
    CASE kind = "Mod" -> "mods"
      [] kind = "ModPack" -> "mods"
      [] kind = "ResourcePack" -> "resourcepacks"
      [] kind = "ShaderPack" -> "shaderpacks"

\* Lines 611-617
parse_platform(s) ==
    CASE Lower(s) = "modrinth" -> Ok("Modrinth")
      [] Lower(s) = "curseforge" -> Ok("CurseForge")
      [] OTHER -> Err("invalid platform")

\* Lines 619-627
parse_content_type(s) ==
    CASE Lower(s) = "mod" -> Ok("Mod")
      [] Lower(s) = "resourcepack" -> Ok("ResourcePack")
      [] Lower(s) \in {"shader", "shaderpack"} -> Ok("ShaderPack")
      [] Lower(s) = "modpack" -> Ok("ModPack")
      [] OTHER -> Err("invalid content type")

CommandReturn(p, result, effect) ==
    /\ ccResult' = [ccResult EXCEPT ![p] = result]
    /\ ccEffect' = [ccEffect EXCEPT ![p] = effect]
    /\ ccPc' = [ccPc EXCEPT ![p] = "done"]

NoEffect == [op |-> "none"]

\* The load_profile at the head of each command (lines 178, 200, 685)
CommandLoad(p) ==
    /\ ccPc[p] = "ready"
    /\ UNCHANGED <<registry, response, disk, templateVars, reconcilerVars, storeVars, ccInput, ccInitial, serviceVars>>
    /\ LET loaded == load_profile(disk, ccInput[p].profile_id)
       IN  IF loaded.ok
           THEN /\ ccLocal' = [ccLocal EXCEPT ![p] = loaded.val]
                /\ ccPc' = [ccPc EXCEPT ![p] = "loaded"]
                /\ UNCHANGED <<ccResult, ccEffect>>
           ELSE /\ CommandReturn(p, loaded, NoEffect)
                /\ UNCHANGED ccLocal

\* add_content, lines 177-178
AddLoad(p) == ccInput[p].cmd = "add_content" /\ CommandLoad(p)

\* add_content, lines 179-195: resolve_input and store_content may fail; on
\* success the stored ref is upserted and the profile saved
AddStore(p) ==
    /\ ccInput[p].cmd = "add_content"
    /\ ccPc[p] = "loaded"
    /\ UNCHANGED <<registry, response, templateVars, reconcilerVars, storeVars, ccInput, ccInitial, serviceVars>>
    /\ \E io \in {"ok", "store_failed", "save_failed"} :
          LET list == KindList(ccInput[p].kind)
              profile_data == upsert_into(ccLocal[p], list, ccInput[p].ref)
              changed == profile_data # ccLocal[p]
          IN  IF io = "store_failed"
              THEN /\ CommandReturn(p, Err("failed to store content"), NoEffect)
                   /\ UNCHANGED <<disk, ccLocal>>
              ELSE /\ ccLocal' = [ccLocal EXCEPT ![p] = profile_data]
                   /\ IF io = "save_failed"
                      THEN /\ CommandReturn(p, Err("failed to write profile"), NoEffect)
                           /\ UNCHANGED disk
                      ELSE /\ disk' = [disk EXCEPT ![profile_data.id] = Some(profile_data)]
                           /\ CommandReturn(p, Ok(changed),
                                  [op |-> "upsert", list |-> list, ref |-> ccInput[p].ref])

\* remove_content, lines 199-200
RemoveLoad(p) == ccInput[p].cmd = "remove_content" /\ CommandLoad(p)

\* remove_content, lines 201-209: the profile is saved only if something was removed
RemoveSave(p) ==
    /\ ccInput[p].cmd = "remove_content"
    /\ ccPc[p] = "loaded"
    /\ UNCHANGED <<registry, response, templateVars, reconcilerVars, storeVars, ccInput, ccInitial, serviceVars>>
    /\ \E io \in {"ok", "save_failed"} :
          LET list == KindList(ccInput[p].kind)
              profile_data ==
                  [ccLocal[p] EXCEPT ![list] = remove(@, ccInput[p].target)]
              changed == profile_data # ccLocal[p]
              effect == [op |-> "remove", list |-> list, target |-> ccInput[p].target]
          IN  /\ ccLocal' = [ccLocal EXCEPT ![p] = profile_data]
              /\ IF ~changed
                 THEN /\ io = "ok"
                      /\ CommandReturn(p, Ok(FALSE), effect)
                      /\ UNCHANGED disk
                 ELSE IF io = "save_failed"
                 THEN /\ CommandReturn(p, Err("failed to write profile"), NoEffect)
                      /\ UNCHANGED disk
                 ELSE /\ disk' = [disk EXCEPT ![profile_data.id] = Some(profile_data)]
                      /\ CommandReturn(p, Ok(TRUE), effect)

\* store_install_cmd, lines 681-685
InstallLoad(p) == ccInput[p].cmd = "store_install_cmd" /\ CommandLoad(p)

\* What the registry and the network do for one store_install_cmd: the project
\* lookup, the version lookup or resolution, the download, the final save
InstallOutcomes ==
    {[kind |-> k, content_type |-> "Mod", hash |-> "h1"] :
        k \in {"project_failed", "version_failed"}}
    \cup {[kind |-> k, content_type |-> ct, hash |-> h] :
            k \in {"download_failed", "save_failed", "ok"},
            ct \in {"Mod", "ShaderPack"}, h \in {"h2"}}

\* store_install_cmd, lines 686-719
InstallFinish_mut_saves_on_failure(p) ==
    /\ ccInput[p].cmd = "store_install_cmd"
    /\ ccPc[p] = "loaded"
    /\ UNCHANGED <<registry, response, templateVars, reconcilerVars, storeVars, ccInput, ccInitial, serviceVars>>
    /\ LET input == ccInput[p]
           platform == parse_platform(input.platform)
       IN  IF ~platform.ok
           THEN /\ CommandReturn(p, platform, NoEffect)
                /\ UNCHANGED <<disk, ccLocal>>
           ELSE \E out \in InstallOutcomes :
                   LET parsed == IF input.content_type.some
                                 THEN parse_content_type(input.content_type.val)
                                 ELSE Ok(out.content_type)
                       content_ref == [name |-> input.project_id, hash |-> Some(out.hash),
                                       source |-> input.project_id]
                   IN  IF out.kind = "project_failed"
                       THEN /\ CommandReturn(p, Err("project not found"), NoEffect)
                            /\ UNCHANGED <<disk, ccLocal>>
                       ELSE IF ~parsed.ok
                       THEN /\ CommandReturn(p, parsed, NoEffect)
                            /\ UNCHANGED <<disk, ccLocal>>
                       ELSE IF out.kind = "version_failed"
                       THEN /\ CommandReturn(p,
                                  IF input.version_id.some THEN Err("version not found")
                                  ELSE Err("no compatible version found"), NoEffect)
                            /\ UNCHANGED <<disk, ccLocal>>
                       ELSE IF out.kind = "download_failed"
                       THEN /\ CommandReturn(p, Err("download failed"), NoEffect)
                            /\ disk' = [disk EXCEPT ![ccLocal[p].id] =
                                           Some(upsert_into(ccLocal[p], KindList(parsed.val),
                                                            content_ref))]
                            /\ UNCHANGED ccLocal
                       ELSE LET list == KindList(parsed.val)
                                profile == upsert_into(ccLocal[p], list, content_ref)
                            IN  /\ ccLocal' = [ccLocal EXCEPT ![p] = profile]
                                /\ IF out.kind = "save_failed"
                                   THEN /\ CommandReturn(p, Err("failed to write profile"),
                                                         NoEffect)
                                        /\ UNCHANGED disk
                                   ELSE /\ disk' = [disk EXCEPT ![profile.id] = Some(profile)]
                                        /\ CommandReturn(p, Ok(profile),
                                               [op |-> "upsert", list |-> list,
                                                ref |-> content_ref])

InstallFinish(p) ==
    /\ ccInput[p].cmd = "store_install_cmd"
    /\ ccPc[p] = "loaded"
    /\ UNCHANGED <<registry, response, templateVars, reconcilerVars, storeVars, ccInput, ccInitial, serviceVars>>
    /\ LET input == ccInput[p]
           platform == parse_platform(input.platform)
       IN  IF ~platform.ok
           THEN /\ CommandReturn(p, platform, NoEffect)
                /\ UNCHANGED <<disk, ccLocal>>
           ELSE \E out \in InstallOutcomes :
                   LET parsed == IF input.content_type.some
                                 THEN parse_content_type(input.content_type.val)
                                 ELSE Ok(out.content_type)
                       content_ref == [name |-> input.project_id, hash |-> Some(out.hash),
                                       source |-> input.project_id]
                   IN  IF out.kind = "project_failed"
                       THEN /\ CommandReturn(p, Err("project not found"), NoEffect)
                            /\ UNCHANGED <<disk, ccLocal>>
                       ELSE IF ~parsed.ok
                       THEN /\ CommandReturn(p, parsed, NoEffect)
                            /\ UNCHANGED <<disk, ccLocal>>
                       ELSE IF out.kind = "version_failed"
                       THEN /\ CommandReturn(p,
                                  IF input.version_id.some THEN Err("version not found")
                                  ELSE Err("no compatible version found"), NoEffect)
                            /\ UNCHANGED <<disk, ccLocal>>
                       ELSE IF out.kind = "download_failed"
                       THEN /\ CommandReturn(p, Err("download failed"), NoEffect)
                            /\ UNCHANGED <<disk, ccLocal>>
                       ELSE LET list == KindList(parsed.val)
                                profile == upsert_into(ccLocal[p], list, content_ref)
                            IN  /\ ccLocal' = [ccLocal EXCEPT ![p] = profile]
                                /\ IF out.kind = "save_failed"
                                   THEN /\ CommandReturn(p, Err("failed to write profile"),
                                                         NoEffect)
                                        /\ UNCHANGED disk
                                   ELSE /\ disk' = [disk EXCEPT ![profile.id] = Some(profile)]
                                        /\ CommandReturn(p, Ok(profile),
                                               [op |-> "upsert", list |-> list,
                                                ref |-> content_ref])

CommandNext ==
    \E p \in Procs :
        \/ AddLoad(p)
        \/ AddStore(p)
        \/ RemoveLoad(p)
        \/ RemoveSave(p)
        \/ InstallLoad(p)
        \/ InstallFinish(p)

----------------------------------------------------------------------------
(* Initial states and specifications *)

EmptyDisk == [p \in ProfileIds |-> None]

\* A profile some earlier command persisted
ExistingProfile ==
    [id |-> "p", mc_version |-> "1.21.4", loader |-> None,
     runtime |-> [java |-> None, memory |-> None, args |-> <<>>],
     mods |-> <<[name |-> "Sodium", hash |-> Some("h1"), source |-> "local"]>>,
     resourcepacks |-> <<>>, shaderpacks |-> <<>>]

BaseInput ==
    [id |-> "p", mc_version |-> "1.21.4", loader_type |-> None,
     loader_version |-> None, java |-> None, memory |-> None, args |-> None,
     template |-> Some("default")]

ResolveIdle == registry = <<>> /\ response = IdleResponse

TemplateIdle ==
    /\ tpInput = BaseInput
    /\ tpTemplate = None
    /\ tpPc = "idle"
    /\ tpIdx = 0
    /\ tpProfile = NoProfile
    /\ tpCalls = <<>>
    /\ tpResult = Err("idle")

CommandIdle ==
    /\ ccInput = [p \in Procs |-> [cmd |-> "none", profile_id |-> "p"]]
    /\ ccPc = [p \in Procs |-> "idle"]
    /\ ccLocal = [p \in Procs |-> NoProfile]
    /\ ccResult = [p \in Procs |-> Err("idle")]
    /\ ccEffect = [p \in Procs |-> NoEffect]
    /\ ccInitial = EmptyDisk

NoCall == [op |-> "none"]

ReconcilerIdle == rcProfile = NoProfile /\ rcCall = NoCall

StoreIdle == store = {} /\ stWrites = <<>> /\ stCalls = <<>>

JavaIdle == hashQuery = NoCall /\ jvQuery = NoCall /\ jvAnswer = NoCall

BuiltinIdle == templatesDir = <<>> /\ tdCall = NoCall

AccountIdle == accounts = [active |-> None, accounts |-> <<>>] /\ acCall = NoCall

LaunchIdle == lnPc = <<>> /\ lnFacts = <<>> /\ launchStatus = <<>>

LogIdle ==
    /\ logFile = [id |-> 0, bytes |-> <<>>]
    /\ logHistory = [replaced |-> FALSE]
    /\ watcher = [position |-> 0, line_number |-> 0]
    /\ delivered = <<>>
    /\ lastRead = NoCall

WatchIdle == wtPc = "none" /\ wtStop = NoCall /\ wtEntries = NoCall

ServiceIdle ==
    JavaIdle /\ BuiltinIdle /\ AccountIdle /\ LaunchIdle /\ LogIdle /\ WatchIdle

\* Everything the profile side of the launcher keeps, at rest
ProfileSideIdle ==
    /\ ResolveIdle
    /\ TemplateIdle
    /\ CommandIdle
    /\ ReconcilerIdle
    /\ StoreIdle
    /\ disk = EmptyDisk

profileSideVars ==
    <<resolveVars, disk, templateVars, commandVars, reconcilerVars, storeVars>>

TemplateAtStart ==
    /\ tpPc = "start"
    /\ tpIdx = 0
    /\ tpProfile = NoProfile
    /\ tpCalls = <<>>
    /\ tpResult = Err("idle")

ResolveInit ==
    /\ ServiceIdle
    /\ ResolveRegistryInit
    /\ disk = EmptyDisk
    /\ TemplateIdle
    /\ CommandIdle
    /\ ReconcilerIdle
    /\ StoreIdle

SpecResolve == ResolveInit /\ [][ResolveNext]_vars

\* The entries of a template list: n entries, entry i of kind f[i]
EntryKinds == [type : {"modrinth", "curseforge", "url"}, required : BOOLEAN]

EntryList(list, n, f) ==
    [i \in 1..n |->
        [name |-> ProjectOf(list, i),
         source |-> [type |-> f[i].type, project |-> ProjectOf(list, i)],
         required |-> f[i].required]]

FabricLoader == Some([loader_type |-> "fabric", version |-> "latest"])

\* Templates with at most MaxEntries entries over their three lists, run with no
\* caller overrides, on a disk where the profile id is free or taken.
TemplateInit ==
    /\ ServiceIdle
    /\ ResolveIdle
    /\ CommandIdle
    /\ ReconcilerIdle
    /\ StoreIdle
    /\ tpInput = BaseInput
    /\ TemplateAtStart
    /\ disk \in {EmptyDisk, [p \in ProfileIds |-> Some(ExistingProfile)]}
    /\ \/ tpTemplate = None
       \/ \E nm \in 0..MaxEntries, ns \in 0..MaxEntries, nr \in 0..MaxEntries :
             /\ nm + ns + nr <= MaxEntries
             /\ \E fm \in [1..nm -> EntryKinds], fs \in [1..ns -> EntryKinds],
                   fr \in [1..nr -> EntryKinds] :
                   tpTemplate =
                     Some([mc_version |-> "1.21.4", loader |-> FabricLoader,
                           mods |-> EntryList("mods", nm, fm),
                           shaderpacks |-> EntryList("shaderpacks", ns, fs),
                           resourcepacks |-> EntryList("resourcepacks", nr, fr),
                           runtime |-> [java |-> None, memory |-> Some("4G"),
                                        args |-> <<>>]])

SpecTemplate == TemplateInit /\ [][TemplateNext]_vars

\* Every combination of caller-supplied and template loader and runtime values,
\* on a template with one required Modrinth entry in each list.
OptionStrings(S) == {None} \cup {Some(x) : x \in S}

RequiredModrinth == [type |-> "modrinth", required |-> TRUE]

TemplateRuntimeInit ==
    /\ ServiceIdle
    /\ ResolveIdle
    /\ CommandIdle
    /\ ReconcilerIdle
    /\ StoreIdle
    /\ TemplateAtStart
    /\ disk = EmptyDisk
    /\ tpInput \in
         [id : {"p"}, mc_version : {"1.20.1"},
          loader_type : OptionStrings({"forge"}),
          loader_version : OptionStrings({"47.2.0"}),
          java : OptionStrings({"", "/usr/bin/java"}),
          memory : OptionStrings({"8G"}),
          args : OptionStrings(ArgStrings),
          template : OptionStrings({"default"})]
    /\ \E loader \in {None, FabricLoader},
          runtime \in [java : OptionStrings({"/opt/jdk/bin/java"}),
                       memory : OptionStrings({"4G"}),
                       args : {<<>>, <<"-XX:+UseG1GC">>}] :
          tpTemplate =
            Some([mc_version |-> "1.21.4", loader |-> loader,
                  mods |-> EntryList("mods", 1, <<RequiredModrinth>>),
                  shaderpacks |-> EntryList("shaderpacks", 1, <<RequiredModrinth>>),
                  resourcepacks |-> EntryList("resourcepacks", 1, <<RequiredModrinth>>),
                  runtime |-> runtime])

SpecTemplateRuntime == TemplateRuntimeInit /\ [][TemplateNext]_vars

\* Two invocations, each of any of the three commands, on the same profile id
AddInputs ==
    [cmd : {"add_content"}, profile_id : {"p"},
     kind : {"Mod", "ShaderPack"},
     ref : {[name |-> "Sodium", hash |-> Some("h1"), source |-> "local"],
            [name |-> "Iris", hash |-> Some("h3"), source |-> "local"]}]

RemoveInputs ==
    [cmd : {"remove_content"}, profile_id : {"p"},
     kind : {"Mod", "ShaderPack"}, target : {"h1", "SODIUM"}]

InstallInputs ==
    [cmd : {"store_install_cmd"}, profile_id : {"p"}, project_id : {"lithium"},
     platform : {"Modrinth", "bukkit"}, version_id : {None, Some("v1")},
     content_type : {None, Some("Shader"), Some("plugin")}]

CommandInputs == AddInputs \cup RemoveInputs \cup InstallInputs

CommandInit ==
    /\ ServiceIdle
    /\ ResolveIdle
    /\ TemplateIdle
    /\ ReconcilerIdle
    /\ StoreIdle
    /\ disk \in {EmptyDisk,
                 [p \in ProfileIds |-> Some(ExistingProfile)],
                 [p \in ProfileIds |-> Some([ExistingProfile EXCEPT !.mods = <<>>])]}
    /\ ccInitial = disk
    /\ ccInput \in [Procs -> CommandInputs]
    /\ ccPc = [p \in Procs |-> "ready"]
    /\ ccLocal = [p \in Procs |-> NoProfile]
    /\ ccResult = [p \in Procs |-> Err("idle")]
    /\ ccEffect = [p \in Procs |-> NoEffect]

SpecCommands == CommandInit /\ [][CommandNext]_vars

----------------------------------------------------------------------------
(* The profile reconciler on an in-memory profile, called the way            *)
(* add_content and remove_content call it (commands.rs:189-193, 201-205).    *)
(* profile.rs is not among the sources: what a call reports is modelled from *)
(* its specification, section 4.4.                                           *)

\* What upsert reports: changed = (old != new) on a replacement, true on an append
upsert_changed(list, ref) ==
    LET hits == {i \in DOMAIN list : Identity(list[i]) = Identity(ref)}
    IN  IF hits = {} THEN TRUE ELSE list[Min(hits)] # ref

\* store::ContentKind, the kinds add_content and remove_content dispatch on
ContentKinds == {"Mod", "ResourcePack", "ShaderPack"}

\* The refs and removal targets the calls are made with: two refs of the same
\* hash, two hashless refs of the same name up to case, and one more.
ReconcilerRefs ==
    {[name |-> "Sodium", hash |-> Some("h1"), source |-> "modrinth"],
     [name |-> "Sodium", hash |-> Some("h1"), source |-> "local"],
     [name |-> "Iris", hash |-> None, source |-> "local"],
     [name |-> "iris", hash |-> None, source |-> "url"],
     [name |-> "Lithium", hash |-> Some("h2"), source |-> "local"]}

ReconcilerTargets == {"h1", "IRIS", "lithium", "h9"}

Entries(profile) ==
    Len(profile.mods) + Len(profile.resourcepacks) + Len(profile.shaderpacks)

\* commands.rs:189-193: let changed = match kind { .. => upsert_*(&mut profile_data, content_ref) }
ReconcilerUpsert ==
    \E kind \in ContentKinds, ref \in ReconcilerRefs :
        LET list == KindList(kind)
            after == upsert_into(rcProfile, list, ref)
        IN  /\ Entries(after) <= MaxEntries
            /\ rcProfile' = after
            /\ rcCall' = [op |-> "upsert", kind |-> kind, ref |-> ref,
                          before |-> rcProfile,
                          changed |-> upsert_changed(rcProfile[list], ref),
                          repeated |-> /\ rcCall.op = "upsert"
                                       /\ rcCall.kind = kind
                                       /\ rcCall.ref = ref]
            /\ UNCHANGED <<registry, response, disk, templateVars, commandVars, storeVars, serviceVars>>

\* commands.rs:201-205: let changed = match kind { .. => remove_*(&mut profile_data, target) }
ReconcilerRemove ==
    \E kind \in ContentKinds, target \in ReconcilerTargets :
        LET list == KindList(kind)
            after == [rcProfile EXCEPT ![list] = remove(@, target)]
        IN  /\ rcProfile' = after
            /\ rcCall' = [op |-> "remove", kind |-> kind, target |-> target,
                          before |-> rcProfile,
                          changed |-> after[list] # rcProfile[list]]
            /\ UNCHANGED <<registry, response, disk, templateVars, commandVars, storeVars, serviceVars>>

ReconcilerNext == ReconcilerUpsert \/ ReconcilerRemove

\* A profile as create_profile leaves it, before any content is added
FreshProfile ==
    [id |-> "p", mc_version |-> "1.21.4", loader |-> None,
     runtime |-> [java |-> None, memory |-> None, args |-> <<>>],
     mods |-> <<>>, resourcepacks |-> <<>>, shaderpacks |-> <<>>]

ReconcilerInit ==
    /\ ServiceIdle
    /\ ResolveIdle
    /\ TemplateIdle
    /\ CommandIdle
    /\ StoreIdle
    /\ disk = EmptyDisk
    /\ rcProfile = FreshProfile
    /\ rcCall = NoCall

SpecReconciler == ReconcilerInit /\ [][ReconcilerNext]_vars

----------------------------------------------------------------------------
(* diff_profiles_cmd and clone_profile_cmd (commands.rs:149-168) on the      *)
(* persisted profiles. diff_profiles and clone_profile are in profile.rs,    *)
(* which is not among the sources: they are modelled from section 4.4.       *)

PersistedIds == {"a", "b"}

ListNames == {"mods", "resourcepacks", "shaderpacks"}

\* The content identities of a profile, over its three lists
Identities(profile) ==
    UNION {{Identity(profile[l][i]) : i \in DOMAIN profile[l]} : l \in ListNames}

\* profile::diff_profiles -> (only_a, only_b, both)
diff_profiles(profile_a, profile_b) ==
    <<Identities(profile_a) \ Identities(profile_b),
      Identities(profile_b) \ Identities(profile_a),
      Identities(profile_a) \cap Identities(profile_b)>>

\* commands.rs:167: DiffResult { only_a, only_b, both }
DiffResult_mut_fields(only_a, only_b, both) ==
    [only_a |-> both, only_b |-> only_b, both |-> only_a]

DiffResult(only_a, only_b, both) ==
    [only_a |-> only_a, only_b |-> only_b, both |-> both]

\* diff_profiles_cmd(a, b)
diff_profiles_cmd(d, a, b) ==
    LET profile_a == load_profile(d, a)
        profile_b == load_profile(d, b)
    IN  IF ~profile_a.ok THEN profile_a
        ELSE IF ~profile_b.ok THEN profile_b
        ELSE LET r == diff_profiles(profile_a.val, profile_b.val)
             IN  Ok(DiffResult(r[1], r[2], r[3]))

\* profile::clone_profile(paths, src, dst): the outcomes it may have. When the
\* source is missing and the destination is taken, section 4.4 does not say
\* which of the two errors is reported.
clone_profile(d, src, dst) ==
    LET exists == [result |-> Err("profile already exists"), disk |-> d]
        missing == [result |-> Err("profile not found"), disk |-> d]
        copy == [d[src].val EXCEPT !.id = dst]
    IN  IF d[dst].some /\ ~d[src].some THEN {exists, missing}
        ELSE IF d[dst].some THEN {exists}
        ELSE IF ~d[src].some THEN {missing}
        ELSE {[result |-> Ok(copy), disk |-> [d EXCEPT ![dst] = Some(copy)]]}

\* clone_profile_cmd(src, dst)
clone_profile_cmd_mut_swapped(d, src, dst) == clone_profile(d, dst, src)

clone_profile_cmd(d, src, dst) == clone_profile(d, src, dst)

DiffProfilesCmd ==
    \E a \in PersistedIds, b \in PersistedIds :
        /\ rcCall' = [op |-> "diff", a |-> a, b |-> b, before |-> disk,
                      result |-> diff_profiles_cmd(disk, a, b)]
        /\ UNCHANGED <<registry, response, disk, templateVars, commandVars,
                       rcProfile, storeVars, serviceVars>>

CloneProfileCmd ==
    \E src \in PersistedIds, dst \in PersistedIds :
        \E out \in clone_profile_cmd(disk, src, dst) :
            /\ disk' = out.disk
            /\ rcCall' = [op |-> "clone", src |-> src, dst |-> dst, before |-> disk,
                          result |-> out.result]
            /\ UNCHANGED <<registry, response, templateVars, commandVars,
                           rcProfile, storeVars, serviceVars>>

ProfilesNext == DiffProfilesCmd \/ CloneProfileCmd

\* The content lists and configurations of the persisted source profile
ContentLists ==
    {<<>>,
     <<[name |-> "Sodium", hash |-> Some("h1"), source |-> "modrinth"]>>,
     <<[name |-> "Iris", hash |-> None, source |-> "local"],
       [name |-> "Lithium", hash |-> Some("h2"), source |-> "local"]>>}

SourceProfiles ==
    [id : {"a"}, mc_version : {"1.21.4"},
     loader : {None, FabricLoader},
     runtime : {[java |-> None, memory |-> None, args |-> <<>>],
                [java |-> Some("/usr/bin/java"), memory |-> Some("4G"),
                 args |-> <<"-Xa", "-Xb">>]},
     mods : ContentLists, resourcepacks : ContentLists, shaderpacks : ContentLists]

\* A profile persisted under the other id
OtherProfile ==
    [id |-> "b", mc_version |-> "1.20.1", loader |-> None,
     runtime |-> [java |-> None, memory |-> Some("2G"), args |-> <<>>],
     mods |-> <<[name |-> "iris", hash |-> None, source |-> "url"]>>,
     resourcepacks |-> <<>>,
     shaderpacks |-> <<[name |-> "Sodium", hash |-> Some("h1"), source |-> "local"]>>]

ProfilesInit ==
    /\ ServiceIdle
    /\ ResolveIdle
    /\ TemplateIdle
    /\ CommandIdle
    /\ StoreIdle
    /\ rcProfile = NoProfile
    /\ rcCall = NoCall
    /\ \E a \in {None} \cup {Some(x) : x \in SourceProfiles},
          b \in {None, Some(OtherProfile)} :
          disk = [id \in PersistedIds |-> IF id = "a" THEN a ELSE b]

SpecProfiles == ProfilesInit /\ [][ProfilesNext]_vars

----------------------------------------------------------------------------
(* The content-addressed store behind store_install_cmd (commands.rs:708-  *)
(* 719). ContentStore::download_to_store is in content_store.rs, which is   *)
(* not among the sources: it is modelled from section 4.3.                  *)

MaxDownloads == 3

\* The primary files the registries serve: what the registry advertises as the
\* file's hash (if anything) and the hash of the bytes a download yields. Files
\* 1 and 4 are two uploads of the same bytes; file 3 is served with bytes that
\* do not match its advertised hash.
StoreFiles ==
    {[id |-> "f1", project |-> "sodium", content_type |-> "Mod",
      advertised |-> Some("h1"), bytes |-> "h1"],
     [id |-> "f2", project |-> "shader", content_type |-> "ShaderPack",
      advertised |-> None, bytes |-> "h2"],
     [id |-> "f3", project |-> "lithium", content_type |-> "Mod",
      advertised |-> Some("h3"), bytes |-> "h4"],
     [id |-> "f4", project |-> "sodium-fork", content_type |-> "Mod",
      advertised |-> Some("h1"), bytes |-> "h1"]}

\* The location of a store entry: a deterministic function of the hash
StoreLocation(hash) == <<"store", hash>>

HasEntry(st, hash) == \E e \in st : e.hash = hash

\* ContentStore::download_to_store(paths, version, content_type), on the
\* version's primary file; net and fs are what the network and the disk do.
download_to_store_mut_no_dedup(st, writes, file, net, fs) ==
    LET computed == file.bytes
        content_ref == [name |-> file.project, hash |-> Some(computed),
                        source |-> file.id]
        unchanged(result) == [result |-> result, store |-> st, writes |-> writes]
    IN  IF net = "fail" THEN unchanged(Err("download failed"))
        ELSE IF file.advertised.some /\ file.advertised.val # computed
        THEN unchanged(Err("hash mismatch"))
        ELSE IF fs = "fail" THEN unchanged(Err("store write failed"))
        ELSE [result |-> Ok(content_ref),
              store |-> st \cup {[location |-> <<"store", computed, Len(writes)>>,
                                  hash |-> computed]},
              writes |-> Append(writes, computed)]

download_to_store(st, writes, file, net, fs) ==
    LET computed == file.bytes
        content_ref == [name |-> file.project, hash |-> Some(computed),
                        source |-> file.id]
        unchanged(result) == [result |-> result, store |-> st, writes |-> writes]
    IN  IF net = "fail" THEN unchanged(Err("download failed"))
        ELSE IF file.advertised.some /\ file.advertised.val # computed
        THEN unchanged(Err("hash mismatch"))
        ELSE IF HasEntry(st, computed) THEN unchanged(Ok(content_ref))
        ELSE IF fs = "fail" THEN unchanged(Err("store write failed"))
        ELSE [result |-> Ok(content_ref),
              store |-> st \cup {[location |-> StoreLocation(computed),
                                  hash |-> computed]},
              writes |-> Append(writes, computed)]

\* commands.rs:709-716: the `?` on download_to_store, then the upsert by content type
InstallContent_mut_fallback(profile, file, downloaded, ct) ==
    IF ~downloaded.ok
    THEN Ok(upsert_into(profile, KindList(ct),
                        [name |-> file.project, hash |-> file.advertised,
                         source |-> file.id]))
    ELSE Ok(upsert_into(profile, KindList(ct), downloaded.val))

InstallContent(profile, file, downloaded, ct) ==
    IF ~downloaded.ok THEN downloaded
    ELSE Ok(upsert_into(profile, KindList(ct), downloaded.val))

\* store_install_cmd on profile "p", one invocation after the other. The
\* project and version lookups (lines 689-705) either fail, and the command
\* returns, or yield a version whose primary file is `file`.
StoreInstallCmd ==
    /\ Len(stCalls) < MaxDownloads
    /\ \E file \in StoreFiles,
          out \in {"ok", "version_failed", "net_failed", "write_failed", "save_failed"} :
          LET loaded == load_profile(disk, "p")
              net == IF out = "net_failed" THEN "fail" ELSE "ok"
              fs == IF out = "write_failed" THEN "fail" ELSE "ok"
              dl == download_to_store(store, stWrites, file, net, fs)
              installed == InstallContent(loaded.val, file, dl.result, file.content_type)
              call(downloaded, result) ==
                  [file |-> file.id, downloaded |-> downloaded, result |-> result,
                   store_before |-> store, disk_before |-> disk]
          IN  IF ~loaded.ok \/ out = "version_failed"
              THEN /\ stCalls' = Append(stCalls,
                          call(None, IF loaded.ok THEN Err("no compatible version found")
                                     ELSE loaded))
                   /\ UNCHANGED <<disk, store, stWrites>>
              ELSE /\ store' = dl.store
                   /\ stWrites' = dl.writes
                   /\ IF ~installed.ok
                      THEN /\ stCalls' = Append(stCalls, call(Some(dl.result), installed))
                           /\ UNCHANGED disk
                      ELSE IF out = "save_failed"
                      THEN /\ stCalls' = Append(stCalls,
                                  call(Some(dl.result), Err("failed to write profile")))
                           /\ UNCHANGED disk
                      ELSE /\ stCalls' = Append(stCalls, call(Some(dl.result), installed))
                           /\ disk' = [disk EXCEPT !["p"] = Some(installed.val)]
    /\ UNCHANGED <<registry, response, templateVars, commandVars, reconcilerVars, serviceVars>>

StoreNext == StoreInstallCmd

StoreInit ==
    /\ ServiceIdle
    /\ ResolveIdle
    /\ TemplateIdle
    /\ CommandIdle
    /\ ReconcilerIdle
    /\ disk \in {EmptyDisk, [p \in ProfileIds |-> Some(FreshProfile)]}
    /\ store = {}
    /\ stWrites = <<>>
    /\ stCalls = <<>>

SpecStore == StoreInit /\ [][StoreNext]_vars

----------------------------------------------------------------------------
(* The registry clients' single calls: get_primary_file, download_file,      *)
(* get_project / get_mod (modrinth.rs, curseforge.rs). `registry` is what    *)
(* the registry holds or answers for the call, `response` the call made and  *)
(* what it returned and did.                                                 *)

MaxFiles == 3

\* ModrinthClient::get_primary_file(version)
get_primary_file_mut_ignores_flag(version) ==
    IF version.files = <<>> THEN None ELSE Some(Head(version.files))

get_primary_file(version) ==
    LET flagged == {i \in DOMAIN version.files : version.files[i].primary}
    IN  IF flagged # {} THEN Some(version.files[Min(flagged)])
        ELSE IF version.files # <<>> THEN Some(Head(version.files))
        ELSE None

\* CurseForgeClient::download_file(file, path): the result, the requests it
\* sent and what it wrote to `path` (None: nothing). std::fs::write may fail
\* before or after it has created the file.
download_file_mut_sends_first(file, net, fs) ==
    LET sent == <<IF file.download_url.some THEN file.download_url.val ELSE "">>
        done(result, requests, written) ==
            [result |-> result, requests |-> requests, written |-> written]
    IN  IF net = "send_failed" THEN done(Err("failed to download file"), sent, None)
        ELSE IF ~file.download_url.some
        THEN done(Err("file has no download URL (distribution may be disabled)"), sent, None)
        ELSE IF net = "status_error" THEN done(Err("download failed"), sent, None)
        ELSE IF net = "read_failed" THEN done(Err("failed to read file content"), sent, None)
        ELSE IF fs = "create_failed" THEN done(Err("failed to write file"), sent, None)
        ELSE IF fs = "write_failed"
        THEN done(Err("failed to write file"), sent, Some("partial"))
        ELSE done(Ok("unit"), sent, Some("bytes"))

download_file(file, net, fs) ==
    LET sent == <<file.download_url.val>>
        done(result, requests, written) ==
            [result |-> result, requests |-> requests, written |-> written]
    IN  IF ~file.download_url.some
        THEN done(Err("file has no download URL (distribution may be disabled)"), <<>>, None)
        ELSE IF net = "send_failed" THEN done(Err("failed to download file"), sent, None)
        ELSE IF net = "status_error" THEN done(Err("download failed"), sent, None)
        ELSE IF net = "read_failed" THEN done(Err("failed to read file content"), sent, None)
        ELSE IF fs = "create_failed" THEN done(Err("failed to write file"), sent, None)
        ELSE IF fs = "write_failed"
        THEN done(Err("failed to write file"), sent, Some("partial"))
        ELSE done(Ok("unit"), sent, Some("bytes"))

\* reqwest Response::error_for_status: an error for 400..599, nothing else
error_for_status(status) == status >= 400 /\ status <= 599

\* ModrinthClient::get_project(id_or_slug), on the registry's answer
get_project_mut_no_404_check(answer) ==
    IF ~answer.sent THEN Err("failed to fetch project")
    ELSE IF error_for_status(answer.status) THEN Err("Modrinth request failed")
    ELSE IF answer.body # "document" THEN Err("failed to parse project")
    ELSE Ok([id |-> "project"])

get_project(answer) ==
    IF ~answer.sent THEN Err("failed to fetch project")
    ELSE IF answer.status = 404 THEN Err("project not found")
    ELSE IF error_for_status(answer.status) THEN Err("Modrinth request failed")
    ELSE IF answer.body # "document" THEN Err("failed to parse project")
    ELSE Ok([id |-> "project"])

\* CurseForgeClient::get_mod(mod_id), on the registry's answer
get_mod(answer) ==
    IF ~answer.sent THEN Err("failed to fetch mod")
    ELSE IF answer.status = 404 THEN Err("mod not found")
    ELSE IF error_for_status(answer.status) THEN Err("CurseForge request failed")
    ELSE IF answer.body # "document" THEN Err("failed to parse mod")
    ELSE Ok([id |-> "mod"])

\* The versions get_primary_file is called on: up to MaxFiles files, any of
\* them flagged primary
VersionsWithFiles ==
    UNION {{[kind |-> "version",
             files |-> [i \in 1..n |-> [filename |-> i, primary |-> f[i]]]] :
               f \in [1..n -> BOOLEAN]} : n \in 0..MaxFiles}

\* The files download_file is called on: with and without a download URL
CurseForgeFiles ==
    {[kind |-> "file", id |-> 1, download_url |-> u] :
        u \in {None, Some("https://edge.forgecdn.net/files/1.jar")}}

\* The answers to GET /project/{id} and GET /mods/{id}: the status and, for a
\* status that carries a body, whether it is the project document
HttpAnswers ==
    {[kind |-> "answer", sent |-> FALSE, status |-> 0, body |-> "none"]}
    \cup {[kind |-> "answer", sent |-> TRUE, status |-> st, body |-> b] :
            st \in {200, 403, 404, 429, 500, 503}, b \in {"document", "garbage"}}
    \cup {[kind |-> "answer", sent |-> TRUE, status |-> st, body |-> "none"] :
            st \in {204, 304}}

GetPrimaryFile ==
    /\ registry.kind = "version"
    /\ response' = [op |-> "get_primary_file", result |-> get_primary_file(registry)]
    /\ UNCHANGED <<registry, disk, templateVars, commandVars, reconcilerVars, storeVars, serviceVars>>

CurseForgeDownloadFile ==
    /\ registry.kind = "file"
    /\ \E net \in {"ok", "send_failed", "status_error", "read_failed"},
          fs \in {"ok", "create_failed", "write_failed"} :
          LET out == download_file(registry, net, fs)
          IN  response' = [op |-> "download_file", net |-> net, fs |-> fs,
                           result |-> out.result, requests |-> out.requests,
                           written |-> out.written]
    /\ UNCHANGED <<registry, disk, templateVars, commandVars, reconcilerVars, storeVars, serviceVars>>

ModrinthGetProject ==
    /\ registry.kind = "answer"
    /\ response' = [op |-> "get_project", result |-> get_project(registry)]
    /\ UNCHANGED <<registry, disk, templateVars, commandVars, reconcilerVars, storeVars, serviceVars>>

CurseForgeGetMod ==
    /\ registry.kind = "answer"
    /\ response' = [op |-> "get_mod", result |-> get_mod(registry)]
    /\ UNCHANGED <<registry, disk, templateVars, commandVars, reconcilerVars, storeVars, serviceVars>>

\* store_search_cmd (commands.rs:629-653) over ModrinthClient::search.
\* ContentStore::search_modrinth and ContentStore::search are in
\* content_store.rs, which is not among the sources: they are modelled from
\* section 4.1.

MaxHits == 2

\* Option<T> as the Vec<T> of its value
OptionToSeq(o) == IF o.some THEN <<o.val>> ELSE <<>>

\* ContentType::to_modrinth: the project type of a content type
ProjectTypeOf(ct) ==
    CASE ct = "Mod" -> "mod"
      [] ct = "ModPack" -> "modpack"
      [] ct = "ResourcePack" -> "resourcepack"
      [] ct = "ShaderPack" -> "shader"

\* SearchFacets::to_facets_string: one facet per project type, category and
\* game version, in that order; the loaders are not encoded
to_facets_string(facets) ==
    (IF facets.project_type.some
     THEN <<<<"project_types", facets.project_type.val>>>> ELSE <<>>)
    \o [i \in DOMAIN facets.categories |-> <<"categories", facets.categories[i]>>]
    \o [i \in DOMAIN facets.game_versions |-> <<"game_versions", facets.game_versions[i]>>]

\* The registry's search endpoint: the projects that match every facet of the
\* facets parameter, paged by limit and offset
FacetMatches(hit, facet) ==
    CASE facet[1] = "project_types" -> hit.project_type = facet[2]
      [] facet[1] = "categories" -> facet[2] \in hit.categories
      [] facet[1] = "game_versions" -> facet[2] \in hit.versions
      [] OTHER -> FALSE

ServerSearch(projects, facets_str, limit, offset) ==
    LET matching == SelectSeq(projects, LAMBDA h :
                        \A k \in DOMAIN facets_str : FacetMatches(h, facets_str[k]))
        last == IF offset + limit < Len(matching) THEN offset + limit ELSE Len(matching)
    IN  SubSeq(matching, offset + 1, last)

\* ModrinthClient::search(query, facets, limit, offset)
ModrinthSearch(projects, net, facets, limit, offset) ==
    IF net = "fail" THEN Err("failed to search Modrinth")
    ELSE Ok(ServerSearch(projects, to_facets_string(facets), limit, offset))

\* ContentStore::search_modrinth(options): the hits of the search, post-filtered
\* against the loaders each supports when a loader is given
search_modrinth(projects, net, options) ==
    LET facets == [project_type |-> IF options.content_type.some
                                    THEN Some(ProjectTypeOf(options.content_type.val))
                                    ELSE None,
                   categories |-> <<>>,
                   game_versions |-> OptionToSeq(options.game_version),
                   loaders |-> OptionToSeq(options.loader)]
        found == ModrinthSearch(projects, net, facets, options.limit, options.offset)
    IN  IF ~found.ok THEN found
        ELSE Ok(SelectSeq(found.val, LAMBDA h :
                    options.loader.some => options.loader.val \in h.loaders))

\* commands.rs:639-646: the SearchOptions the command builds from its input
SearchOptions_mut_drops_loader(input, content_type) ==
    [query |-> input.query, content_type |-> content_type,
     game_version |-> input.game_version, loader |-> None,
     limit |-> IF input.limit.some THEN input.limit.val ELSE 20, offset |-> 0]

SearchOptions(input, content_type) ==
    [query |-> input.query, content_type |-> content_type,
     game_version |-> input.game_version, loader |-> input.loader,
     limit |-> IF input.limit.some THEN input.limit.val ELSE 20, offset |-> 0]

\* store_search_cmd(input). No CurseForge key is configured: ContentStore::search
\* has the Modrinth registry alone to search.
store_search_cmd(projects, net, input) ==
    LET parsed == IF input.content_type.some
                  THEN parse_content_type(input.content_type.val)
                  ELSE Ok("none")
        content_type == IF input.content_type.some THEN Some(parsed.val) ELSE None
        options == SearchOptions(input, content_type)
    IN  IF ~parsed.ok THEN parsed
        ELSE IF input.platform = Some("curseforge")
        THEN Err("CurseForge search requires API key")
        ELSE search_modrinth(projects, net, options)

\* The projects the registry holds: up to MaxHits of them
SearchProjects ==
    {[project_type |-> "mod", versions |-> {"1.21.4"}, loaders |-> {"fabric"}],
     [project_type |-> "mod", versions |-> {"1.21.3", "1.21.4"}, loaders |-> {"forge"}],
     [project_type |-> "mod", versions |-> {"1.21.3", "1.21.4"},
      loaders |-> {"fabric", "forge"}],
     [project_type |-> "shader", versions |-> {"1.21.3", "1.21.4"},
      loaders |-> {"fabric", "forge"}]}

SearchRegistries ==
    UNION {{[kind |-> "search",
             projects |-> [i \in 1..n |->
                             [project_id |-> i, project_type |-> f[i].project_type,
                              categories |-> {"optimization"},
                              versions |-> f[i].versions,
                              loaders |-> f[i].loaders]]] :
               f \in [1..n -> SearchProjects]} : n \in 0..MaxHits}

SearchInputs ==
    [query : {"so"},
     content_type : {None, Some("Mod"), Some("plugin")},
     game_version : {None, Some("1.21.3")},
     loader : {None, Some("forge")},
     platform : {None, Some("modrinth"), Some("curseforge")},
     limit : {None, Some(1)}]

StoreSearchCmd ==
    /\ registry.kind = "search"
    /\ \E input \in SearchInputs, net \in {"ok", "fail"} :
          response' = [op |-> "store_search_cmd", input |-> input, net |-> net,
                       result |-> store_search_cmd(registry.projects, net, input)]
    /\ UNCHANGED <<registry, disk, templateVars, commandVars, reconcilerVars, storeVars, serviceVars>>

ClientNext ==
    \/ GetPrimaryFile
    \/ CurseForgeDownloadFile
    \/ ModrinthGetProject
    \/ CurseForgeGetMod
    \/ StoreSearchCmd

ClientInit ==
    /\ ServiceIdle
    /\ registry \in VersionsWithFiles \cup CurseForgeFiles \cup HttpAnswers
                      \cup SearchRegistries
    /\ response = IdleResponse
    /\ disk = EmptyDisk
    /\ TemplateIdle
    /\ CommandIdle
    /\ ReconcilerIdle
    /\ StoreIdle

SpecClient == ClientInit /\ [][ClientNext]_vars

----------------------------------------------------------------------------
(* The CurseForge file hashes (curseforge.rs): a file carries a list of     *)
(* FileHash entries, each a value and an algo (1 = sha1, 2 = md5).          *)

MaxHashes == 3

HashAlgos == {1, 2}
HashValues == {"aa", "bb"}

FileHash == [value : HashValues, algo : HashAlgos]

HashLists == UNION {[1..n -> FileHash] : n \in 0..MaxHashes}

\* get_sha1_hash: find the first entry whose algo is 1 and map it to its value
get_sha1_hash_mut_first_entry(file) ==
    IF file.hashes = <<>> THEN None ELSE Some(file.hashes[1].value)

get_sha1_hash(file) ==
    LET hits == {i \in DOMAIN file.hashes : file.hashes[i].algo = 1}
    IN  IF hits = {} THEN None ELSE Some(file.hashes[Min(hits)].value)

GetSha1Hash ==
    /\ hashQuery.op = "pending"
    /\ hashQuery' = [op |-> "get_sha1_hash", file |-> hashQuery.file,
                     result |-> get_sha1_hash(hashQuery.file)]
    /\ UNCHANGED <<profileSideVars, jvQuery, jvAnswer, builtinVars, accountVars,
                   launchVars, logVars, watchVars>>

HashesNext == GetSha1Hash

HashesInit ==
    /\ ProfileSideIdle
    /\ BuiltinIdle
    /\ AccountIdle
    /\ LaunchIdle
    /\ LogIdle
    /\ WatchIdle
    /\ jvQuery = NoCall
    /\ jvAnswer = NoCall
    /\ hashQuery \in [op : {"pending"}, file : [hashes : HashLists]]

SpecHashes == HashesInit /\ [][HashesNext]_vars

----------------------------------------------------------------------------
(* The Java requirement of a Minecraft version (java.rs). A version string  *)
(* is held as what splitting it yields: a release "1.20.5" as its           *)
(* dot-separated numbers, a snapshot-shaped "24w14a" as its year and week.  *)

MaxMajor == 2
MaxMinor == 21
MaxPatch == 6

Release(parts) == [kind |-> "release", parts |-> parts]

ReleaseVersions ==
    {Release(<<major, minor>>) : major \in 0..MaxMajor, minor \in 0..MaxMinor}
    \cup {Release(<<major, minor, patch>>) :
            major \in 0..MaxMajor, minor \in 0..MaxMinor, patch \in 0..MaxPatch}

\* "24w14a", and "05w10a", whose year is outside what is_snapshot_version accepts
SnapshotVersions == {[kind |-> "snapshot", year |-> y, week |-> 14] : y \in {5, 24}}

McVersions == ReleaseVersions \cup SnapshotVersions

JavaMajors == {8, 11, 16, 17, 20, 21, 22}

MC_JAVA_REQUIREMENTS ==
    <<[mc_version_min |-> Release(<<1, 20, 5>>), java_major |-> 21],
      [mc_version_min |-> Release(<<1, 18>>), java_major |-> 17],
      [mc_version_min |-> Release(<<1, 17>>), java_major |-> 16],
      [mc_version_min |-> Release(<<1, 0>>), java_major |-> 8]>>

\* YYwWWx with a year from 11 to 99
is_snapshot_version(version) ==
    version.kind = "snapshot" /\ version.year >= 11 /\ version.year <= 99

\* The closure `parse` of compare_mc_versions: a snapshot is (1, year, 99); else
\* the first three dot-separated parts, 0 for a part that is missing or no number
parse(s) ==
    IF is_snapshot_version(s) THEN <<1, s.year, 99>>
    ELSE IF s.kind = "snapshot" THEN <<0, 0, 0>>
    ELSE LET part(i) == IF i <= Len(s.parts) THEN s.parts[i] ELSE 0
         IN  <<part(1), part(2), part(3)>>

\* Ordering::cmp on (u32, u32, u32)
TupleCmp(x, y) ==
    IF x[1] # y[1] THEN (IF x[1] < y[1] THEN -1 ELSE 1)
    ELSE IF x[2] # y[2] THEN (IF x[2] < y[2] THEN -1 ELSE 1)
    ELSE IF x[3] # y[3] THEN (IF x[3] < y[3] THEN -1 ELSE 1)
    ELSE 0

compare_mc_versions_mut_no_patch(a, b) ==
    TupleCmp(<<parse(a)[1], parse(a)[2], 0>>, <<parse(b)[1], parse(b)[2], 0>>)

compare_mc_versions(a, b) == TupleCmp(parse(a), parse(b))

get_required_java_version(mc_version) ==
    LET hits == {i \in DOMAIN MC_JAVA_REQUIREMENTS :
                    compare_mc_versions(mc_version,
                                        MC_JAVA_REQUIREMENTS[i].mc_version_min) >= 0}
    IN  IF hits = {} THEN 8 ELSE MC_JAVA_REQUIREMENTS[Min(hits)].java_major

is_java_compatible(java_major, mc_version) ==
    java_major >= get_required_java_version(mc_version)

JavaCheck ==
    /\ jvAnswer = NoCall
    /\ jvAnswer' = [op |-> "checked",
                    required |-> get_required_java_version(jvQuery.mc_version),
                    compatible |-> is_java_compatible(jvQuery.java_major,
                                                      jvQuery.mc_version)]
    /\ UNCHANGED <<profileSideVars, hashQuery, jvQuery, builtinVars, accountVars,
                   launchVars, logVars, watchVars>>

JavaNext == JavaCheck

JavaInit ==
    /\ ProfileSideIdle
    /\ BuiltinIdle
    /\ AccountIdle
    /\ LaunchIdle
    /\ LogIdle
    /\ WatchIdle
    /\ hashQuery = NoCall
    /\ jvAnswer = NoCall
    /\ jvQuery \in [mc_version : McVersions, java_major : JavaMajors]

SpecJava == JavaInit /\ [][JavaNext]_vars

----------------------------------------------------------------------------
(* The templates directory (template.rs): one JSON file per template id.    *)
(* save_template writes the file of the template's id, delete_template      *)
(* removes one, init_builtin_templates writes the built-in "vanilla" and    *)
(* "default" templates where no file of that id is present. `fs` is what    *)
(* the file system does for the call's directory creation and writes.       *)

TemplateIds == {"vanilla", "default", "mine"}

FsOutcomes == {"ok", "fail"}

create_vanilla_template ==
    [id |-> "vanilla", name |-> "Vanilla", loader |-> None, memory |-> Some("2G")]

create_default_template ==
    [id |-> "default", name |-> "Default", loader |-> Some("fabric"),
     memory |-> Some("4G")]

\* The templates a user saves, under a built-in id as well
UserTemplates ==
    [id : TemplateIds, name : {"Mine"}, loader : {None}, memory : {None, Some("8G")}]

NoTemplates == [id \in TemplateIds |-> None]

is_template_present(dir, id) == dir[id].some

\* create_dir_all, then fs::write of the serialized template
save_template(dir, template, fs) ==
    IF fs.dir = "fail"
    THEN [result |-> Err("failed to create templates directory"), dir |-> dir]
    ELSE IF fs.write = "fail"
    THEN [result |-> Err("failed to write template file"), dir |-> dir]
    ELSE [result |-> Ok(TRUE), dir |-> [dir EXCEPT ![template.id] = Some(template)]]

delete_template(dir, id, fs) ==
    IF ~is_template_present(dir, id) THEN [result |-> Ok(FALSE), dir |-> dir]
    ELSE IF fs.write = "fail"
    THEN [result |-> Err("failed to delete template"), dir |-> dir]
    ELSE [result |-> Ok(TRUE), dir |-> [dir EXCEPT ![id] = None]]

\* fs.dir is the create_dir_all of the call, fs.vanilla and fs.default the
\* writes of the two save_template calls it may make
init_builtin_templates_mut_overwrites(dir, fs) ==
    LET ok == [dir |-> "ok", write |-> "ok"]
        vanilla == save_template(dir, create_vanilla_template,
                                 [ok EXCEPT !.write = fs.vanilla])
        default == save_template(vanilla.dir, create_default_template,
                                 [ok EXCEPT !.write = fs.default])
    IN  IF fs.dir = "fail"
        THEN [result |-> Err("failed to create templates directory"), dir |-> dir]
        ELSE IF ~vanilla.result.ok THEN vanilla
        ELSE default

init_builtin_templates(dir, fs) ==
    LET ok == [dir |-> "ok", write |-> "ok"]
        vanilla == IF ~is_template_present(dir, "vanilla")
                   THEN save_template(dir, create_vanilla_template,
                                      [ok EXCEPT !.write = fs.vanilla])
                   ELSE [result |-> Ok(TRUE), dir |-> dir]
        default == IF ~is_template_present(vanilla.dir, "default")
                   THEN save_template(vanilla.dir, create_default_template,
                                      [ok EXCEPT !.write = fs.default])
                   ELSE [result |-> Ok(TRUE), dir |-> vanilla.dir]
    IN  IF fs.dir = "fail"
        THEN [result |-> Err("failed to create templates directory"), dir |-> dir]
        ELSE IF ~vanilla.result.ok THEN vanilla
        ELSE default

\* Whether the call before this one was an init_builtin_templates that returned Ok
AfterInit == tdCall.op = "init_builtin_templates" /\ tdCall.result.ok

TemplatesCall(op, arg, result) ==
    [op |-> op, arg |-> arg, before |-> templatesDir, result |-> result,
     after_init |-> AfterInit]

InitBuiltinTemplates ==
    \E fs \in [dir : FsOutcomes, vanilla : FsOutcomes, default : FsOutcomes] :
        LET out == init_builtin_templates(templatesDir, fs)
        IN  /\ templatesDir' = out.dir
            /\ tdCall' = TemplatesCall("init_builtin_templates", "", out.result)
            /\ UNCHANGED <<profileSideVars, javaVars, accountVars, launchVars,
                           logVars, watchVars>>

SaveTemplate ==
    \E template \in UserTemplates, fs \in [dir : FsOutcomes, write : FsOutcomes] :
        LET out == save_template(templatesDir, template, fs)
        IN  /\ templatesDir' = out.dir
            /\ tdCall' = TemplatesCall("save_template", template.id, out.result)
            /\ UNCHANGED <<profileSideVars, javaVars, accountVars, launchVars,
                           logVars, watchVars>>

DeleteTemplate ==
    \E id \in TemplateIds, fs \in [write : FsOutcomes] :
        LET out == delete_template(templatesDir, id, fs)
        IN  /\ templatesDir' = out.dir
            /\ tdCall' = TemplatesCall("delete_template", id, out.result)
            /\ UNCHANGED <<profileSideVars, javaVars, accountVars, launchVars,
                           logVars, watchVars>>

BuiltinNext == InitBuiltinTemplates \/ SaveTemplate \/ DeleteTemplate

BuiltinInit ==
    /\ ProfileSideIdle
    /\ JavaIdle
    /\ AccountIdle
    /\ LaunchIdle
    /\ LogIdle
    /\ WatchIdle
    /\ templatesDir = NoTemplates
    /\ tdCall = [op |-> "none", result |-> Err("idle")]

SpecBuiltin == BuiltinInit /\ [][BuiltinNext]_vars

----------------------------------------------------------------------------
(* The accounts (accounts.rs): Accounts holds the list of accounts and the  *)
(* uuid of the active one. An id names an account by its uuid or, ignoring  *)
(* case, by its username.                                                   *)

MaxAccounts == 2

Uuids == {"u1", "u2", "u3"}

\* "U1" is a username that, lowercased, reads like the uuid of another account
Usernames == {"Alex", "ALEX", "U1"}

Account == [uuid : Uuids, username : Usernames]

AccountIdArgs == {"u1", "u2", "alex", "U1", "nobody"}

matches_account(account, id, id_lower) ==
    account.uuid = id \/ Lower(account.username) = id_lower

RECURSIVE Retain(_, _)
\* Vec::retain(|account| !removed_uuids.contains(&account.uuid))
Retain(list, removed_uuids) ==
    IF list = <<>> THEN <<>>
    ELSE IF Head(list).uuid \in removed_uuids THEN Retain(Tail(list), removed_uuids)
    ELSE <<Head(list)>> \o Retain(Tail(list), removed_uuids)

upsert_account_mut_always_pushes(accs, account) ==
    [accs EXCEPT !.accounts = Append(@, account)]

upsert_account(accs, account) ==
    LET hits == {i \in DOMAIN accs.accounts : accs.accounts[i].uuid = account.uuid}
    IN  IF hits = {} THEN [accs EXCEPT !.accounts = Append(@, account)]
        ELSE [accs EXCEPT !.accounts[Min(hits)] = account]

remove_account_mut_keeps_active(accs, id) ==
    LET removed_uuids == {accs.accounts[i].uuid : i \in
                             {i \in DOMAIN accs.accounts :
                                 matches_account(accs.accounts[i], id, Lower(id))}}
        kept == Retain(accs.accounts, removed_uuids)
    IN  [accounts |-> [accs EXCEPT !.accounts = kept],
         result |-> Len(accs.accounts) # Len(kept)]

remove_account(accs, id) ==
    LET removed_uuids == {accs.accounts[i].uuid : i \in
                             {i \in DOMAIN accs.accounts :
                                 matches_account(accs.accounts[i], id, Lower(id))}}
        kept == Retain(accs.accounts, removed_uuids)
        active == IF accs.active.some /\ accs.active.val \in removed_uuids
                  THEN None ELSE accs.active
    IN  [accounts |-> [active |-> active, accounts |-> kept],
         result |-> Len(accs.accounts) # Len(kept)]

set_active(accs, id) ==
    LET hits == {i \in DOMAIN accs.accounts :
                    matches_account(accs.accounts[i], id, Lower(id))}
    IN  IF hits = {} THEN [accounts |-> accs, result |-> FALSE]
        ELSE [accounts |-> [accs EXCEPT !.active = Some(accs.accounts[Min(hits)].uuid)],
              result |-> TRUE]

UpsertAccount ==
    \E account \in Account :
        LET after == upsert_account(accounts, account)
        IN  /\ Len(after.accounts) <= MaxAccounts
            /\ accounts' = after
            /\ acCall' = [op |-> "upsert_account", arg |-> account,
                          before |-> accounts, result |-> TRUE]
            /\ UNCHANGED <<profileSideVars, javaVars, builtinVars, launchVars,
                           logVars, watchVars>>

RemoveAccount ==
    \E id \in AccountIdArgs :
        LET out == remove_account(accounts, id)
        IN  /\ accounts' = out.accounts
            /\ acCall' = [op |-> "remove_account", arg |-> id,
                          before |-> accounts, result |-> out.result]
            /\ UNCHANGED <<profileSideVars, javaVars, builtinVars, launchVars,
                           logVars, watchVars>>

SetActive ==
    \E id \in AccountIdArgs :
        LET out == set_active(accounts, id)
        IN  /\ accounts' = out.accounts
            /\ acCall' = [op |-> "set_active", arg |-> id,
                          before |-> accounts, result |-> out.result]
            /\ UNCHANGED <<profileSideVars, javaVars, builtinVars, launchVars,
                           logVars, watchVars>>

AccountsNext == UpsertAccount \/ RemoveAccount \/ SetActive

\* Accounts::default()
AccountsInit ==
    /\ ProfileSideIdle
    /\ JavaIdle
    /\ BuiltinIdle
    /\ LaunchIdle
    /\ LogIdle
    /\ WatchIdle
    /\ accounts = [active |-> None, accounts |-> <<>>]
    /\ acCall = NoCall

SpecAccounts == AccountsInit /\ [][AccountsNext]_vars

----------------------------------------------------------------------------
(* launch_profile_cmd (commands.rs): the command spawns a blocking task and *)
(* returns; the task runs run_launch, which emits "launch-status" events as *)
(* it goes, and emits the error event itself when run_launch returns Err.   *)
(* Two calls may be running at a time; an event is held with the call that  *)
(* emitted it.                                                              *)

LaunchEvent(p, stage) == [call |-> p, stage |-> stage]

NoFacts == [prepared |-> "unknown", exit |-> "unknown"]

\* What Command::status() of the game yields: it exited with success, it exited
\* with another status, or it could not be started
ExitOutcomes == {"success", "failure", "spawn_error"}

\* Lines 355-362: `?` on the status() result, then the status.success() test
AfterExit_mut_ignores_status(exit) ==
    IF exit = "spawn_error" THEN "failed" ELSE "succeeded"

AfterExit(exit) == IF exit = "success" THEN "succeeded" ELSE "failed"

\* launch_profile_cmd: spawn_blocking, and Ok(()) at once
LaunchProfileCmd(p) ==
    /\ lnPc[p] = "idle"
    /\ lnPc' = [lnPc EXCEPT ![p] = "run_launch"]
    /\ UNCHANGED <<profileSideVars, javaVars, builtinVars, accountVars, lnFacts,
                   launchStatus, logVars, watchVars>>

\* run_launch, lines 336-339
EmitPreparing(p) ==
    /\ lnPc[p] = "run_launch"
    /\ launchStatus' = Append(launchStatus, LaunchEvent(p, "preparing"))
    /\ lnPc' = [lnPc EXCEPT ![p] = "preparing"]
    /\ UNCHANGED <<profileSideVars, javaVars, builtinVars, accountVars, lnFacts,
                   logVars, watchVars>>

\* run_launch, lines 340-343: load_paths, load_profile, resolve_launch_account and
\* prepare, each with `?`
Prepare(p) ==
    /\ lnPc[p] = "preparing"
    /\ \E ok \in BOOLEAN :
          /\ lnFacts' = [lnFacts EXCEPT ![p].prepared = IF ok THEN "yes" ELSE "no"]
          /\ lnPc' = [lnPc EXCEPT ![p] = IF ok THEN "prepared" ELSE "failed"]
    /\ UNCHANGED <<profileSideVars, javaVars, builtinVars, accountVars, launchStatus,
                   logVars, watchVars>>

\* run_launch, lines 345-348
EmitLaunching(p) ==
    /\ lnPc[p] = "prepared"
    /\ launchStatus' = Append(launchStatus, LaunchEvent(p, "launching"))
    /\ lnPc' = [lnPc EXCEPT ![p] = "launching"]
    /\ UNCHANGED <<profileSideVars, javaVars, builtinVars, accountVars, lnFacts,
                   logVars, watchVars>>

\* run_launch, lines 350-362: the game runs until it exits
GameExit(p) ==
    /\ lnPc[p] = "launching"
    /\ \E exit \in ExitOutcomes :
          /\ lnFacts' = [lnFacts EXCEPT ![p].exit = exit]
          /\ lnPc' = [lnPc EXCEPT ![p] = AfterExit(exit)]
    /\ UNCHANGED <<profileSideVars, javaVars, builtinVars, accountVars, launchStatus,
                   logVars, watchVars>>

\* run_launch, lines 364-369
EmitDone(p) ==
    /\ lnPc[p] = "succeeded"
    /\ launchStatus' = Append(launchStatus, LaunchEvent(p, "done"))
    /\ lnPc' = [lnPc EXCEPT ![p] = "finished"]
    /\ UNCHANGED <<profileSideVars, javaVars, builtinVars, accountVars, lnFacts,
                   logVars, watchVars>>

\* launch_profile_cmd, lines 319-324: run_launch returned Err
EmitError(p) ==
    /\ lnPc[p] = "failed"
    /\ launchStatus' = Append(launchStatus, LaunchEvent(p, "error"))
    /\ lnPc' = [lnPc EXCEPT ![p] = "finished"]
    /\ UNCHANGED <<profileSideVars, javaVars, builtinVars, accountVars, lnFacts,
                   logVars, watchVars>>

LaunchNext ==
    \E p \in Procs :
        \/ LaunchProfileCmd(p)
        \/ EmitPreparing(p)
        \/ Prepare(p)
        \/ EmitLaunching(p)
        \/ GameExit(p)
        \/ EmitDone(p)
        \/ EmitError(p)

LaunchInit ==
    /\ ProfileSideIdle
    /\ JavaIdle
    /\ BuiltinIdle
    /\ AccountIdle
    /\ LogIdle
    /\ WatchIdle
    /\ lnPc = [p \in Procs |-> "idle"]
    /\ lnFacts = [p \in Procs |-> NoFacts]
    /\ launchStatus = <<>>

SpecLaunch == LaunchInit /\ [][LaunchNext]_vars

----------------------------------------------------------------------------
(* The log watcher (logs.rs). The log file is its bytes, a letter or a line *)
(* feed each, together with an id that tells one file from the file that    *)
(* replaced it under the same path. A writer appends chunks, which need not  *)
(* end at a line feed; the file may be truncated or replaced.                *)

MaxBytes == 4
MaxRotations == 1

LF == "LF"

\* What one write of the game appends: the start of a line, the rest of a line
\* with its line feed, a bare line feed
LogChunks == {<<"a">>, <<"b", LF>>, <<LF>>}

\* What the file holds when a rotation puts a new file in its place
RotatedFiles == {<<>>, <<"b", LF>>, <<"b", LF, "b", LF>>}

RECURSIVE Lines(_)
\* BufRead::lines(): the bytes up to each line feed, and what follows the last
\* line feed when that is not empty
Lines(bytes) ==
    IF bytes = <<>> THEN <<>>
    ELSE LET feeds == {i \in DOMAIN bytes : bytes[i] = LF}
         IN  IF feeds = {} THEN <<bytes>>
             ELSE <<SubSeq(bytes, 1, Min(feeds) - 1)>>
                  \o Lines(SubSeq(bytes, Min(feeds) + 1, Len(bytes)))

\* parse_log_line keeps the line as `raw` and the number it was given
parse_log_line(line, line_number) == [raw |-> line, line_number |-> line_number]

\* LogWatcher::new: from the current end of the file
LogWatcher_new(file) == [position |-> Len(file.bytes), line_number |-> 0]

\* LogWatcher::from_start
from_start == [position |-> 0, line_number |-> 0]

\* LogWatcher::read_new: the watcher after the call and the entries returned
read_new(w, file) ==
    LET current_size == Len(file.bytes)
        truncated == current_size < w.position
        position == IF truncated THEN 0 ELSE w.position
        line_number == IF truncated THEN 0 ELSE w.line_number
        lines == Lines(SubSeq(file.bytes, position + 1, current_size))
    IN  [watcher |-> [position |-> current_size,
                      line_number |-> line_number + Len(lines)],
         entries |-> [i \in DOMAIN lines |-> parse_log_line(lines[i], line_number + i)]]

AppendLog ==
    \E chunk \in LogChunks :
        /\ Len(logFile.bytes) + Len(chunk) <= MaxBytes
        /\ logFile' = [logFile EXCEPT !.bytes = @ \o chunk]
        /\ UNCHANGED <<profileSideVars, javaVars, builtinVars, accountVars, launchVars,
                       logHistory, watcher, delivered, lastRead, watchVars>>

\* The file is cut to nothing and written on
TruncateLog ==
    /\ logHistory.rotations < MaxRotations
    /\ logFile.bytes # <<>>
    /\ logFile' = [logFile EXCEPT !.bytes = <<>>]
    /\ logHistory' = [logHistory EXCEPT !.rotations = @ + 1, !.replaced = TRUE,
                                        !.since_read = TRUE]
    /\ UNCHANGED <<profileSideVars, javaVars, builtinVars, accountVars, launchVars,
                   watcher, delivered, lastRead, watchVars>>

\* The file is moved away and a new one, already written to, stands in its place
RotateLog ==
    /\ logHistory.rotations < MaxRotations
    /\ \E bytes \in RotatedFiles :
          logFile' = [id |-> logFile.id + 1, bytes |-> bytes]
    /\ logHistory' = [logHistory EXCEPT !.rotations = @ + 1, !.replaced = TRUE,
                                        !.since_read = TRUE]
    /\ UNCHANGED <<profileSideVars, javaVars, builtinVars, accountVars, launchVars,
                   watcher, delivered, lastRead, watchVars>>

ReadNew ==
    LET out == read_new(watcher, logFile)
    IN  /\ watcher' = out.watcher
        /\ delivered' = delivered \o out.entries
        /\ lastRead' = [op |-> "read_new", file |-> logFile, before |-> watcher,
                        replaced |-> lastRead.op = "read_new" /\ logHistory.since_read,
                        entries |-> out.entries]
        /\ logHistory' = [logHistory EXCEPT !.since_read = FALSE]
        /\ UNCHANGED <<profileSideVars, javaVars, builtinVars, accountVars, launchVars,
                       logFile, watchVars>>

LogsNext == AppendLog \/ TruncateLog \/ RotateLog \/ ReadNew

\* A watcher made by LogWatcher::new or LogWatcher::from_start on a log that is
\* empty or holds a line already
LogsInit ==
    /\ ProfileSideIdle
    /\ JavaIdle
    /\ BuiltinIdle
    /\ AccountIdle
    /\ LaunchIdle
    /\ WatchIdle
    /\ logFile \in {[id |-> 1, bytes |-> bytes] : bytes \in {<<>>, <<"a", LF>>}}
    /\ watcher \in {LogWatcher_new(logFile), from_start}
    /\ logHistory = [start |-> watcher.position, rotations |-> 0, replaced |-> FALSE,
                     since_read |-> FALSE]
    /\ delivered = <<>>
    /\ lastRead = NoCall

SpecLogs == LogsInit /\ [][LogsNext]_vars

----------------------------------------------------------------------------
(* watch_log (logs.rs): a thread that owns a LogWatcher::from_start and, in *)
(* a loop, looks for a stop signal, reads the new entries, sends them if    *)
(* there are any, and sleeps. The caller holds the receiver of the entries  *)
(* and the sender of the stop signal, and may drop either.                  *)

\* The loop's `stop_rx.try_recv().is_ok()`: a queued signal ends the loop; an
\* empty channel does not, nor does one whose sender was dropped
WatchCheckStop ==
    /\ wtPc = "check_stop"
    /\ IF wtStop.queued > 0
       THEN /\ wtStop' = [wtStop EXCEPT !.queued = @ - 1]
            /\ wtPc' = "exited"
       ELSE /\ wtPc' = "read"
            /\ UNCHANGED wtStop
    /\ UNCHANGED <<profileSideVars, javaVars, builtinVars, accountVars, launchVars,
                   logVars, wtEntries>>

\* watcher.read_new(), and tx.send(entries) when it returned any: the send fails,
\* and ends the loop, when the receiver was dropped
WatchRead ==
    /\ wtPc = "read"
    /\ LET out == read_new(watcher, logFile)
       IN  /\ watcher' = out.watcher
           /\ IF out.entries = <<>>
              THEN /\ wtPc' = "sleep"
                   /\ UNCHANGED <<delivered, wtEntries>>
              ELSE IF wtEntries.receiver_dropped
              THEN /\ wtPc' = "exited"
                   /\ UNCHANGED <<delivered, wtEntries>>
              ELSE /\ wtPc' = "sleep"
                   /\ delivered' = delivered \o out.entries
                   /\ wtEntries' =
                         [wtEntries EXCEPT !.batches = @ + 1,
                                           !.after_stop = IF wtStop.sent THEN @ + 1 ELSE @]
    /\ UNCHANGED <<profileSideVars, javaVars, builtinVars, accountVars, launchVars,
                   logFile, logHistory, lastRead, wtStop>>

\* thread::sleep(poll_interval)
WatchSleep ==
    /\ wtPc = "sleep"
    /\ wtPc' = "check_stop"
    /\ UNCHANGED <<profileSideVars, javaVars, builtinVars, accountVars, launchVars,
                   logVars, wtStop, wtEntries>>

\* The caller sends the stop signal
SendStop ==
    /\ ~wtStop.sender_dropped
    /\ ~wtStop.sent
    /\ wtStop' = [wtStop EXCEPT !.sent = TRUE,
                                !.queued = IF wtPc = "exited" THEN @ ELSE @ + 1]
    /\ UNCHANGED <<profileSideVars, javaVars, builtinVars, accountVars, launchVars,
                   logVars, wtPc, wtEntries>>

\* The caller drops the stop sender
DropStopSender ==
    /\ ~wtStop.sender_dropped
    /\ wtStop' = [wtStop EXCEPT !.sender_dropped = TRUE]
    /\ UNCHANGED <<profileSideVars, javaVars, builtinVars, accountVars, launchVars,
                   logVars, wtPc, wtEntries>>

\* The caller drops the receiver of the entries
DropReceiver ==
    /\ ~wtEntries.receiver_dropped
    /\ wtEntries' = [wtEntries EXCEPT !.receiver_dropped = TRUE]
    /\ UNCHANGED <<profileSideVars, javaVars, builtinVars, accountVars, launchVars,
                   logVars, wtPc, wtStop>>

WatchThread == WatchCheckStop \/ WatchRead \/ WatchSleep

WatchNext ==
    \/ WatchCheckStop
    \/ WatchRead
    \/ WatchSleep
    \/ SendStop
    \/ DropStopSender
    \/ DropReceiver
    \/ AppendLog

\* watch_log has returned: the thread is at the head of its loop
WatchInit ==
    /\ ProfileSideIdle
    /\ JavaIdle
    /\ BuiltinIdle
    /\ AccountIdle
    /\ LaunchIdle
    /\ logFile \in {[id |-> 1, bytes |-> bytes] : bytes \in {<<>>, <<"a", LF>>}}
    /\ watcher = from_start
    /\ logHistory = [start |-> 0, rotations |-> 0, replaced |-> FALSE,
                     since_read |-> FALSE]
    /\ delivered = <<>>
    /\ lastRead = NoCall
    /\ wtPc = "check_stop"
    /\ wtStop = [queued |-> 0, sent |-> FALSE, sender_dropped |-> FALSE]
    /\ wtEntries = [batches |-> 0, after_stop |-> 0, receiver_dropped |-> FALSE]

\* The thread is scheduled, and its sleep ends, as long as it has not exited
SpecWatch == WatchInit /\ [][WatchNext]_vars /\ WF_vars(WatchThread)

----------------------------------------------------------------------------
(* Claims about version resolution *)

\* The upstream versions the registry returns for the request of `response`
CompatibleIdx ==
    {i \in DOMAIN registry :
        ServerMatches(registry[i], response.game_version, response.loader)}

ReleaseIdx == {i \in CompatibleIdx : registry[i].channel = "release"}

ModrinthAnswered == response.client = "modrinth" /\ response.net = "ok"
CurseForgeAnswered == response.client = "curseforge" /\ response.net = "ok"

\* C1: when the registry returns at least one "release" version for the request,
\* get_latest_version returns a "release" version, also when a beta or alpha
\* precedes it upstream; a non-release version is returned only when the
\* returned list holds no release.
C1_ReleasePreferred ==
    ModrinthAnswered =>
        /\ (ReleaseIdx # {} =>
               response.result.ok /\ response.result.val.version_type = "release")
        /\ ((response.result.ok /\ response.result.val.version_type # "release") =>
               ReleaseIdx = {})

C1_Witness ==
    /\ ModrinthAnswered
    /\ \E i \in ReleaseIdx : \E j \in CompatibleIdx :
          j < i /\ registry[j].channel # "release"
    /\ response.result.ok

C3_EmptyIsError ==
    /\ (ModrinthAnswered /\ CompatibleIdx = {}) =>
           response.result = Err("no compatible version found")
    /\ (CurseForgeAnswered /\ CompatibleIdx = {}) =>
           response.result = Err("no compatible files found")

C3_Witness ==
    /\ CurseForgeAnswered
    /\ CompatibleIdx = {}
    /\ registry # <<>>
    /\ ~response.result.ok

\* C4: for a mod with a compatible release file and a compatible beta or alpha
\* file, get_latest_file returns the release file, whatever their upstream order.
C4_CurseForgeReleasePreferred ==
    (CurseForgeAnswered /\ ReleaseIdx # {} /\ ReleaseIdx # CompatibleIdx) =>
        response.result.ok /\ response.result.val.release_type = 1

----------------------------------------------------------------------------
(* Claims about the template installer *)

TemplateLists == {"mods", "shaderpacks", "resourcepacks"}

\* The positions (list, index) of the template's entries
EntryPositions ==
    IF tpTemplate.some
    THEN UNION {{<<l, i>> : i \in DOMAIN tpTemplate.val[l]} : l \in TemplateLists}
    ELSE {}

EntryAt(pos) == tpTemplate.val[pos[1]][pos[2]]

CallsFor(pos) ==
    {k \in DOMAIN tpCalls : tpCalls[k].list = pos[1] /\ tpCalls[k].idx = pos[2]}

\* The command ran its loops to the end (the profile was created from the template)
TemplateRan ==
    /\ tpPc = "done"
    /\ tpInput.template.some
    /\ tpTemplate.some
    /\ tpResult.ok \/ tpResult.err = "failed to write profile"

\* The successful downloads into a list
Downloaded(list) ==
    {k \in DOMAIN tpCalls :
        tpCalls[k].list = list /\ tpCalls[k].op = "download_to_store" /\ tpCalls[k].ok}

FailedCalls == {k \in DOMAIN tpCalls : ~tpCalls[k].ok}

\* C5: an entry with required = false is never attempted: no version resolution
\* and no download is made for it, no entry of the profile comes from it, and
\* the command fails only for a reason that is not an entry (the template file,
\* the creation of the profile, the final save).
C5_OptionalNeverAttempted ==
    /\ \A pos \in EntryPositions :
          ~EntryAt(pos).required =>
              /\ CallsFor(pos) = {}
              /\ \A l \in TemplateLists : \A j \in DOMAIN tpProfile[l] :
                    tpProfile[l][j].source # EntryAt(pos).source.project
    /\ (tpPc = "done" /\ tpInput.template.some /\ ~tpResult.ok) =>
          tpResult.err \in {"failed to read template file", "profile already exists",
                            "failed to write profile"}

C5_Witness ==
    /\ TemplateRan
    /\ tpResult.ok
    /\ \E pos \in EntryPositions :
          ~EntryAt(pos).required /\ EntryAt(pos).source.type = "modrinth"
    /\ \E l \in TemplateLists : Downloaded(l) # {}

\* C6: a required entry whose resolution or download fails does not stop the
\* command: every later required Modrinth entry is still resolved, each list of
\* the resulting profile holds exactly the entries that were downloaded into it,
\* and the command fails only if the final save fails.
C6_FailureIsolation ==
    TemplateRan =>
        /\ \A pos \in EntryPositions :
              (EntryAt(pos).required /\ EntryAt(pos).source.type = "modrinth") =>
                  \E k \in CallsFor(pos) : tpCalls[k].op = "get_latest_version"
        /\ \A l \in TemplateLists :
              /\ \A k \in Downloaded(l) : \E j \in DOMAIN tpProfile[l] :
                    tpProfile[l][j].hash = tpCalls[k].hash
              /\ \A j \in DOMAIN tpProfile[l] : \E k \in Downloaded(l) :
                    /\ tpProfile[l][j].hash = tpCalls[k].hash
                    /\ tpProfile[l][j].source = tpCalls[k].project
              /\ \A i, j \in DOMAIN tpProfile[l] :
                    tpProfile[l][i].hash = tpProfile[l][j].hash => i = j
        /\ tpResult.ok =>
              tpResult.val = tpProfile /\ disk[tpProfile.id] = Some(tpProfile)

C6_Witness ==
    /\ TemplateRan
    /\ tpResult.ok
    /\ \E k \in FailedCalls : \E l \in TemplateLists : \E k2 \in Downloaded(l) :
          /\ k < k2
          /\ \E j \in DOMAIN tpResult.val[l] : tpResult.val[l][j].hash = tpCalls[k2].hash

\* What the value the command returned says about skipped entries
SkippedInResult ==
    IF "skipped" \in DOMAIN tpResult.val THEN tpResult.val.skipped ELSE {}

\* C7: whenever a required entry fails to resolve or download, the result the
\* command returns identifies that entry as skipped, alongside the profile.
C7_SkippedReported ==
    (TemplateRan /\ tpResult.ok) =>
        \A k \in FailedCalls : <<tpCalls[k].list, tpCalls[k].idx>> \in SkippedInResult

\* C8: every required entry, whatever its source (Modrinth project, CurseForge
\* project, URL), is attempted: the command resolves and downloads it.
C8_EveryRequiredSourceAttempted ==
    TemplateRan =>
        \A pos \in EntryPositions : EntryAt(pos).required => CallsFor(pos) # {}

\* The loader the caller supplies: both loader_type and loader_version
CallerLoader ==
    IF tpInput.loader_type.some /\ tpInput.loader_version.some
    THEN Some([loader_type |-> tpInput.loader_type.val,
               version |-> tpInput.loader_version.val])
    ELSE None

CreatedFromTemplate ==
    /\ tpInput.template.some
    /\ tpTemplate.some
    /\ tpPc # "start"
    /\ tpProfile # NoProfile

\* C9: the loader, java, memory and args of a profile created from a template
\* are the caller's values where the caller supplies them (args: a non-blank
\* string, split at whitespace), and the template's otherwise.
C9_CallerOverridesTemplate ==
    CreatedFromTemplate =>
        /\ tpProfile.loader =
              IF CallerLoader.some THEN CallerLoader ELSE tpTemplate.val.loader
        /\ tpProfile.runtime.java =
              IF tpInput.java.some THEN tpInput.java ELSE tpTemplate.val.runtime.java
        /\ tpProfile.runtime.memory =
              IF tpInput.memory.some THEN tpInput.memory
              ELSE tpTemplate.val.runtime.memory
        /\ tpProfile.runtime.args =
              IF tpInput.args.some /\ tpInput.args.val = " -Xa  -Xb "
              THEN <<"-Xa", "-Xb">>
              ELSE tpTemplate.val.runtime.args

----------------------------------------------------------------------------
(* Claims about concurrent commands on one profile *)

ApplyEffect(e, profile) ==
    CASE e.op = "upsert" -> upsert_into(profile, e.list, e.ref)
      [] e.op = "remove" -> [profile EXCEPT ![e.list] = remove(@, e.target)]
      [] OTHER -> profile

BothSucceeded == \A p \in Procs : ccPc[p] = "done" /\ ccResult[p].ok

\* C10: two commands that mutate the same profile never interleave their
\* load-modify-save sequences: when both succeed, the persisted profile is what
\* running the two mutations one after the other, in one order or the other,
\* leaves (no update is lost).
C10_NoLostUpdate ==
    BothSucceeded =>
        \E p \in Procs, q \in Procs :
            /\ p # q
            /\ disk["p"] =
                 Some(ApplyEffect(ccEffect[q], ApplyEffect(ccEffect[p], ccInitial["p"].val)))

----------------------------------------------------------------------------
(* Claims about the profile reconciler *)

\* The list a call on a content kind is meant to touch
ListOfKind(kind) ==
    CASE kind = "Mod" -> "mods"
      [] kind = "ResourcePack" -> "resourcepacks"
      [] kind = "ShaderPack" -> "shaderpacks"

SameIdentity(list, ref) == {i \in DOMAIN list : Identity(list[i]) = Identity(ref)}

\* C11: upsert_mod called a second time with the same ContentRef reports
\* changed = false, leaves the profile as the first call left it, and the mods
\* list then holds exactly one entry of that ref's identity.
C11_UpsertModIdempotent ==
    (rcCall.op = "upsert" /\ rcCall.kind = "Mod") =>
        /\ Cardinality(SameIdentity(rcProfile.mods, rcCall.ref)) = 1
        /\ rcCall.repeated => (~rcCall.changed /\ rcProfile = rcCall.before)

C11_Witness ==
    /\ rcCall.op = "upsert"
    /\ rcCall.kind = "Mod"
    /\ rcCall.repeated
    /\ Len(rcProfile.mods) = 2
    /\ ~rcCall.changed

\* C12: an upsert into a list that holds an entry of the ref's identity replaces
\* that entry where it is, keeps the length of the list and every other entry
\* in its place, and reports changed exactly when the old entry differs from the
\* ref; with no such entry it appends the ref and reports changed = true. In
\* both cases the other two lists (and the rest of the profile) are untouched.
C12_UpsertContract ==
    rcCall.op = "upsert" =>
        LET list == ListOfKind(rcCall.kind)
            old == rcCall.before[list]
            new == rcProfile[list]
            hits == SameIdentity(old, rcCall.ref)
        IN  /\ rcProfile = [rcCall.before EXCEPT ![list] = new]
            /\ IF hits = {}
               THEN new = Append(old, rcCall.ref) /\ rcCall.changed
               ELSE /\ Len(new) = Len(old)
                    /\ \E i \in hits :
                          /\ new[i] = rcCall.ref
                          /\ \A j \in DOMAIN old : j # i => new[j] = old[j]
                          /\ rcCall.changed = (old[i] # rcCall.ref)

C12_Witness ==
    /\ rcCall.op = "upsert"
    /\ rcCall.kind = "ShaderPack"
    /\ rcCall.changed
    /\ Len(rcCall.before.shaderpacks) = 2
    /\ Identity(rcCall.before.shaderpacks[1]) = Identity(rcCall.ref)
    /\ rcCall.before.shaderpacks[1].name # rcCall.ref.name
    /\ rcProfile.shaderpacks[1] = rcCall.ref

\* C13: diff_profiles_cmd(a, a) on a persisted profile returns only_a empty,
\* only_b empty, and both = the set of the identities of the entries of the
\* profile's three lists.
C13_DiffWithItself ==
    (rcCall.op = "diff" /\ rcCall.a = rcCall.b /\ disk[rcCall.a].some) =>
        LET A == disk[rcCall.a].val
        IN  /\ rcCall.result.ok
            /\ rcCall.result.val.only_a = {}
            /\ rcCall.result.val.only_b = {}
            /\ rcCall.result.val.both =
                 {Identity(A.mods[i]) : i \in DOMAIN A.mods}
                    \cup {Identity(A.resourcepacks[i]) : i \in DOMAIN A.resourcepacks}
                    \cup {Identity(A.shaderpacks[i]) : i \in DOMAIN A.shaderpacks}

C13_Witness ==
    /\ rcCall.op = "diff"
    /\ rcCall.a = "a"
    /\ rcCall.b = "a"
    /\ rcCall.result.ok
    /\ Cardinality(rcCall.result.val.both) = 3

\* C14: clone_profile_cmd fails with "already exists" when the destination has
\* a persisted profile and with "not found" when the source has none (one of
\* the two when both hold), and a failed call leaves the persisted profiles as
\* they were; otherwise it succeeds, persists under the destination id a
\* profile with the source's three lists, loader and runtime, and leaves the
\* source as it was.
C14_CloneContract ==
    rcCall.op = "clone" =>
        LET before == rcCall.before
            src == rcCall.src
            dst == rcCall.dst
            result == rcCall.result
        IN  /\ before[dst].some =>
                 /\ ~result.ok
                 /\ before[src].some => result.err = "profile already exists"
            /\ ~before[src].some =>
                 /\ ~result.ok
                 /\ ~before[dst].some => result.err = "profile not found"
            /\ ~result.ok =>
                 /\ disk = before
                 /\ result.err \in {"profile already exists", "profile not found"}
            /\ (before[src].some /\ ~before[dst].some) =>
                 /\ result.ok
                 /\ result.val.id = dst
                 /\ \A f \in {"mods", "resourcepacks", "shaderpacks", "loader", "runtime"} :
                       result.val[f] = before[src].val[f]
                 /\ disk = [before EXCEPT ![dst] = Some(result.val)]
                 /\ disk[src] = before[src]

C14_Witness ==
    /\ rcCall.op = "clone"
    /\ rcCall.result.ok
    /\ rcCall.src = "a"
    /\ rcCall.dst = "b"
    /\ Len(disk["b"].val.mods) = 2
    /\ disk["b"].val.loader.some
    /\ disk["a"] = rcCall.before["a"]

----------------------------------------------------------------------------
(* Claims about the content store *)

FileOf(id) == CHOOSE f \in StoreFiles : f.id = id

\* The calls in which download_to_store returned a ContentRef
StoredCalls ==
    {k \in DOMAIN stCalls : stCalls[k].downloaded.some /\ stCalls[k].downloaded.val.ok}

\* C15: when download_to_store has returned a ContentRef for the same upstream
\* file twice, with any other downloads before, between or after, both refs
\* carry the same hash and the store holds exactly one entry of that hash.
C15_StoreDeduplicates ==
    \A i \in StoredCalls, j \in StoredCalls :
        (i < j /\ stCalls[i].file = stCalls[j].file) =>
            LET h == stCalls[i].downloaded.val.val.hash
            IN  /\ h.some
                /\ stCalls[j].downloaded.val.val.hash = h
                /\ Cardinality({e \in store : e.hash = h.val}) = 1

C15_Witness ==
    /\ Len(stCalls) = 3
    /\ {1, 3} \subseteq StoredCalls
    /\ stCalls[1].file = "f2"
    /\ stCalls[3].file = "f2"
    /\ stCalls[2].file = "f1"
    /\ 2 \in StoredCalls
    /\ Cardinality(store) = 2

\* The last call, when it got as far as download_to_store
LastDownload == stCalls[Len(stCalls)]

\* C16: when the registry advertises a hash for the file and the downloaded
\* bytes hash to another value, download_to_store fails with the hash-mismatch
\* error, the store has no entry it did not have before, and the command
\* returns that error and leaves the persisted profile as it was.
C16_HashMismatchRejected ==
    (stCalls # <<>> /\ LastDownload.downloaded.some) =>
        LET file == FileOf(LastDownload.file)
        IN  (/\ file.advertised.some
             /\ file.advertised.val # file.bytes
             /\ LastDownload.downloaded.val # Err("download failed")) =>
                /\ LastDownload.downloaded.val = Err("hash mismatch")
                /\ store = LastDownload.store_before
                /\ LastDownload.result = Err("hash mismatch")
                /\ disk = LastDownload.disk_before

C16_Witness ==
    /\ Len(stCalls) = 2
    /\ LastDownload.file = "f3"
    /\ LastDownload.downloaded = Some(Err("hash mismatch"))
    /\ disk["p"].some
    /\ Len(disk["p"].val.mods) = 1
    /\ store # {}

----------------------------------------------------------------------------
(* Claims about the registry clients' single calls *)

\* The call the response is of
ResponseOp == IF "op" \in DOMAIN response THEN response.op ELSE "none"

FlaggedFiles == {i \in DOMAIN registry.files : registry.files[i].primary}

\* C17: get_primary_file returns the first file, in list order, that is flagged
\* primary when any file is flagged, otherwise the first file of the version,
\* and no file only when the version has no files.
C17_PrimaryFileSelection ==
    ResponseOp = "get_primary_file" =>
        /\ FlaggedFiles # {} =>
              \E i \in FlaggedFiles :
                  /\ response.result = Some(registry.files[i])
                  /\ \A j \in FlaggedFiles : i <= j
        /\ (FlaggedFiles = {} /\ registry.files # <<>>) =>
              response.result = Some(registry.files[1])
        /\ ~response.result.some <=> registry.files = <<>>

C17_Witness ==
    /\ ResponseOp = "get_primary_file"
    /\ Len(registry.files) = 3
    /\ FlaggedFiles = {2, 3}
    /\ response.result.some
    /\ response.result.val.filename = 2

NoDownloadUrl == Err("file has no download URL (distribution may be disabled)")

\* C18: download_file on a file with no download_url fails with the
\* no-download-URL error, sends no request and writes nothing to the
\* destination; every failure of a file that has a URL (the request, the
\* status, the body, the write) is reported with another error.
C18_DistributionDisabled ==
    ResponseOp = "download_file" =>
        /\ ~registry.download_url.some =>
              /\ response.result = NoDownloadUrl
              /\ response.requests = <<>>
              /\ ~response.written.some
        /\ registry.download_url.some => response.result # NoDownloadUrl

C18_Witness ==
    /\ ResponseOp = "download_file"
    /\ ~registry.download_url.some
    /\ response.net = "send_failed"
    /\ response.result = NoDownloadUrl
    /\ response.requests = <<>>

SuccessStatus == registry.status >= 200 /\ registry.status <= 299

\* C19: get_project and get_mod return their not-found error exactly when the
\* registry answers 404, another error on every other status that is not a
\* success, and the parsed project when a success carries the project document.
C19_NotFoundOn404 ==
    (ResponseOp \in {"get_project", "get_mod"}) =>
        LET not_found == IF ResponseOp = "get_project" THEN Err("project not found")
                         ELSE Err("mod not found")
            parsed == IF ResponseOp = "get_project" THEN Ok([id |-> "project"])
                      ELSE Ok([id |-> "mod"])
        IN  /\ response.result = not_found <=> (registry.sent /\ registry.status = 404)
            /\ (registry.sent /\ ~SuccessStatus) => ~response.result.ok
            /\ (registry.sent /\ SuccessStatus /\ registry.body = "document") =>
                  response.result = parsed

C19_Witness ==
    /\ ResponseOp = "get_mod"
    /\ registry.sent
    /\ registry.status = 404
    /\ registry.body = "document"
    /\ response.result = Err("mod not found")

----------------------------------------------------------------------------
(* Claims about the CurseForge hashes and the Java requirement *)

\* C21: for a file whose hash list has an entry with algo = 1, get_sha1_hash
\* returns the value of the first such entry, whatever entries of another algo
\* stand before it; it returns nothing only when the list has no algo = 1 entry.
C21_Sha1Surfaced ==
    hashQuery.op = "get_sha1_hash" =>
        LET hs == hashQuery.file.hashes
            result == hashQuery.result
        IN  /\ (\E i \in DOMAIN hs : hs[i].algo = 1) <=> result.some
            /\ result.some =>
                  \E i \in DOMAIN hs :
                      /\ hs[i].algo = 1
                      /\ hs[i].value = result.val
                      /\ \A j \in 1..(i - 1) : hs[j].algo # 1

\* An md5 entry with another value stands before the sha1 entry
C21_Witness ==
    /\ hashQuery.op = "get_sha1_hash"
    /\ Len(hashQuery.file.hashes) >= 2
    /\ hashQuery.file.hashes[1] = [value |-> "aa", algo |-> 2]
    /\ hashQuery.file.hashes[2] = [value |-> "bb", algo |-> 1]
    /\ hashQuery.result = Some("bb")

\* The version is at least major.minor.patch, by the numbers
AtLeast(version, major, minor, patch) ==
    LET v == version.parts
        p == IF Len(v) >= 3 THEN v[3] ELSE 0
    IN  \/ v[1] > major
        \/ v[1] = major /\ v[2] > minor
        \/ v[1] = major /\ v[2] = minor /\ p >= patch

\* C22: for a release version major.minor[.patch] the required Java is 21 from
\* 1.20.5, 17 from 1.18, 16 from 1.17 and 8 below; is_java_compatible(j, v) is
\* j >= get_required_java_version(v), hence monotone in j.
C22_RequiredJava ==
    jvAnswer # NoCall /\ jvQuery.mc_version.kind = "release" =>
        LET v == jvQuery.mc_version
            expected == IF AtLeast(v, 1, 20, 5) THEN 21
                        ELSE IF AtLeast(v, 1, 18, 0) THEN 17
                        ELSE IF AtLeast(v, 1, 17, 0) THEN 16
                        ELSE 8
        IN  /\ jvAnswer.required = expected
            /\ jvAnswer.compatible <=> (jvQuery.java_major >= jvAnswer.required)
            /\ \A j1 \in JavaMajors, j2 \in JavaMajors :
                  j1 <= j2 /\ is_java_compatible(j1, v) => is_java_compatible(j2, v)

\* 1.20.4 asks for Java 17 and Java 17 is accepted, one patch below the step to 21
C22_Witness ==
    /\ jvAnswer # NoCall
    /\ jvQuery.mc_version = Release(<<1, 20, 4>>)
    /\ jvQuery.java_major = 17
    /\ jvAnswer.required = 17
    /\ jvAnswer.compatible

----------------------------------------------------------------------------
(* Claims about the templates directory *)

BuiltinTemplate(id) ==
    IF id = "vanilla" THEN create_vanilla_template ELSE create_default_template

\* C23: whatever init_builtin_templates, save_template and delete_template calls
\* came before, a call of init_builtin_templates leaves every template file that
\* existed as it was (a user's "vanilla" or "default" too), writes only the
\* built-in content of a built-in id that had no file, leaves both "vanilla" and
\* "default" present when it returns Ok, and changes nothing when the call before
\* it was an init_builtin_templates that returned Ok.
C23_InitCreatesOnlyMissing ==
    tdCall.op = "init_builtin_templates" =>
        /\ \A id \in TemplateIds :
              tdCall.before[id].some => templatesDir[id] = tdCall.before[id]
        /\ \A id \in TemplateIds :
              ~tdCall.before[id].some /\ templatesDir[id].some =>
                  id \in {"vanilla", "default"}
                  /\ templatesDir[id] = Some(BuiltinTemplate(id))
        /\ tdCall.result.ok =>
              templatesDir["vanilla"].some /\ templatesDir["default"].some
        /\ tdCall.after_init => templatesDir = tdCall.before

\* The user had saved their own "vanilla" and there was no "default": the call
\* keeps the user's file and creates the built-in "default"
C23_Witness ==
    /\ tdCall.op = "init_builtin_templates"
    /\ tdCall.result.ok
    /\ tdCall.before["vanilla"] =
          Some([id |-> "vanilla", name |-> "Mine", loader |-> None,
                memory |-> Some("8G")])
    /\ ~tdCall.before["default"].some
    /\ templatesDir["vanilla"] = tdCall.before["vanilla"]
    /\ templatesDir["default"] = Some(create_default_template)

----------------------------------------------------------------------------
(* Claims about what a failed store_install_cmd leaves behind *)

\* Invocation p of store_install_cmd returns in this step
InstallReturns(p) ==
    /\ ccInput[p].cmd = "store_install_cmd"
    /\ ccPc[p] # "done"
    /\ ccPc'[p] = "done"

\* C24: a store_install_cmd that returns an error (the profile does not load, the
\* platform or the content type does not parse, the project lookup, the version
\* lookup or resolution, or download_to_store fails) has written nothing: the
\* persisted profiles are exactly what they were when it was called; and the
\* invocation that does write returns Ok with the upsert of the downloaded ref.
C24_InstallFailureLeavesProfile ==
    [][\A p \in Procs :
          InstallReturns(p) =>
              /\ ~ccResult'[p].ok => disk' = disk /\ ccEffect'[p] = NoEffect
              /\ disk' # disk => ccResult'[p].ok /\ ccEffect'[p].op = "upsert"]_vars

\* Both invocations were store_install_cmd on the existing profile and failed, one
\* on the download and one on the content type, and the profile is what it was
C24_Witness ==
    /\ \A p \in Procs : ccInput[p].cmd = "store_install_cmd" /\ ccPc[p] = "done"
    /\ ccResult[1] = Err("download failed")
    /\ ccResult[2] = Err("invalid content type")
    /\ disk = ccInitial
    /\ disk["p"] = Some(ExistingProfile)

----------------------------------------------------------------------------
(* Claims about the accounts *)

UuidsOf(accs) == {accs.accounts[i].uuid : i \in DOMAIN accs.accounts}

\* C25: from an empty Accounts, after any upsert_account, remove_account and
\* set_active calls, active is absent or the uuid of an account in the list; a
\* remove_account that removes the active account (named by uuid or by its
\* username in any case) clears active; a set_active that fails leaves active
\* as it was.
C25_ActiveAccountListed ==
    /\ accounts.active.some => accounts.active.val \in UuidsOf(accounts)
    /\ acCall.op = "remove_account" =>
          IF acCall.before.active.some
             /\ acCall.before.active.val \notin UuidsOf(accounts)
          THEN accounts.active = None
          ELSE accounts.active = acCall.before.active
    /\ acCall.op = "set_active" /\ ~acCall.result =>
          accounts.active = acCall.before.active

\* The active account "u1" had the username "ALEX"; remove_account("alex") took
\* it out of the list and cleared active
C25_Witness ==
    /\ acCall.op = "remove_account"
    /\ acCall.arg = "alex"
    /\ acCall.before.active = Some("u1")
    /\ \E i \in DOMAIN acCall.before.accounts :
          acCall.before.accounts[i] = [uuid |-> "u1", username |-> "ALEX"]
    /\ acCall.result
    /\ "u1" \notin UuidsOf(accounts)
    /\ accounts.active = None

\* C26: from an empty Accounts, after any upsert_account, remove_account and
\* set_active calls, no two accounts of the list have the same uuid; an
\* upsert_account of a uuid in the list replaces that account where it stands and
\* the list keeps its length, of a uuid not in the list appends one account.
C26_AccountsUnique ==
    /\ \A i \in DOMAIN accounts.accounts, j \in DOMAIN accounts.accounts :
          accounts.accounts[i].uuid = accounts.accounts[j].uuid => i = j
    /\ acCall.op = "upsert_account" =>
          LET before == acCall.before.accounts
              after == accounts.accounts
              at == {i \in DOMAIN before : before[i].uuid = acCall.arg.uuid}
          IN  IF at = {}
              THEN after = Append(before, acCall.arg)
              ELSE /\ Len(after) = Len(before)
                   /\ \A i \in DOMAIN before :
                         after[i] = IF i \in at THEN acCall.arg ELSE before[i]

\* The second of two accounts got a new username under its uuid, in place
C26_Witness ==
    /\ acCall.op = "upsert_account"
    /\ Len(acCall.before.accounts) = 2
    /\ acCall.before.accounts[2].uuid = acCall.arg.uuid
    /\ acCall.before.accounts[2].username # acCall.arg.username
    /\ Len(accounts.accounts) = 2
    /\ accounts.accounts[2] = acCall.arg
    /\ accounts.accounts[1] = acCall.before.accounts[1]

----------------------------------------------------------------------------
(* Claims about the launch status events *)

\* The stages of the events call p emitted, in order
StagesOf(p) ==
    LET OfCall(e) == e.call = p
        events == SelectSeq(launchStatus, OfCall)
    IN  [i \in DOMAIN events |-> events[i].stage]

IsPrefix(s, t) == Len(s) <= Len(t) /\ SubSeq(t, 1, Len(s)) = s

LaunchRuns ==
    {<<"preparing", "error">>,
     <<"preparing", "launching", "error">>,
     <<"preparing", "launching", "done">>}

\* C27: the events of one launch_profile_cmd call are preparing, then at most one
\* launching, then one terminal event, done or error, and none after it; done
\* only when the preparation succeeded and the game exited with success, error
\* in every other case.
C27_LaunchStatusOrder ==
    \A p \in Procs :
        LET stages == StagesOf(p)
            good == lnFacts[p].prepared = "yes" /\ lnFacts[p].exit = "success"
        IN  /\ \E run \in LaunchRuns : IsPrefix(stages, run)
            /\ lnPc[p] = "finished" =>
                  /\ stages \in LaunchRuns
                  /\ stages[Len(stages)] = IF good THEN "done" ELSE "error"
            /\ (\E i \in DOMAIN stages : stages[i] = "done") => good

\* Two calls side by side: one ran the game to a successful exit, the other's game
\* exited with a failure status, and their events are interleaved
C27_Witness ==
    /\ lnPc[1] = "finished"
    /\ lnPc[2] = "finished"
    /\ StagesOf(1) = <<"preparing", "launching", "done">>
    /\ StagesOf(2) = <<"preparing", "launching", "error">>
    /\ lnFacts[2].exit = "failure"
    /\ launchStatus[2].call = 2
    /\ launchStatus[Len(launchStatus)].call = 2

----------------------------------------------------------------------------
(* Claims about the log watcher *)

\* The lines of the bytes, each with its number from 1
Numbered(bytes) ==
    LET lines == Lines(bytes)
    IN  [i \in DOMAIN lines |-> parse_log_line(lines[i], i)]

\* C28: while the log is only appended to, the entries the read_new calls have
\* returned are the lines written after the watcher's starting position, each
\* whole and once, in file order, numbered 1, 2, 3, ...; and a read_new returns
\* every line written before it.
C28_EachLineOnce ==
    ~logHistory.replaced =>
        LET written == SubSeq(logFile.bytes, logHistory.start + 1, Len(logFile.bytes))
        IN  /\ IsPrefix(delivered, Numbered(written))
            /\ lastRead.op = "read_new" /\ lastRead.file = logFile =>
                  delivered = Numbered(written)

\* C29: a read_new that follows a truncation or a replacement of the log returns
\* all the lines of the file as it now is, numbered from 1, with line_number
\* counted from 0, also when the new file is already as long as the saved
\* position.
C29_RestartAfterRotation ==
    lastRead.op = "read_new" /\ lastRead.replaced =>
        /\ lastRead.entries = Numbered(lastRead.file.bytes)
        /\ lastRead.file = logFile =>
              /\ watcher.line_number = Len(Lines(logFile.bytes))
              /\ watcher.position = Len(logFile.bytes)

----------------------------------------------------------------------------
(* Claims about the watch_log thread *)

\* C30: once the stop signal was sent the thread exits, having sent at most one
\* more batch; and once the caller has dropped the receiver of the entries the
\* thread exits too, whether or not the stop sender was dropped.
C30_WatchThreadTerminates ==
    /\ wtStop.sent ~> wtPc = "exited"
    /\ [](wtEntries.after_stop <= 1)
    /\ wtEntries.receiver_dropped ~> wtPc = "exited"

====
